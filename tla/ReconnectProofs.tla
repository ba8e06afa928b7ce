--------------------------- MODULE ReconnectProofs ---------------------------
(***************************************************************************)
(* Proofs about Reconnect: no browser handles a message twice, and each    *)
(* message it misses below its cursor has a reason, whatever connections   *)
(* break and however often the server is started again.  They rest on what *)
(* HubProofs shows of one server process.                                  *)
(***************************************************************************)
EXTENDS Reconnect, HubProofs

\* The cursors are numbers Subscribe may be called with; Shutdown has no part here.
Cursors ==
    /\ seq <= MaxSeq
    /\ cursor \in [Browsers -> 0..MaxSeq]
    /\ ~closed

\* A connection belongs to one browser.
OneBrowserEach ==
    /\ \A b \in Browsers : conn[b] \in joined \cup {NoSub}
    /\ \A a, b \in Browsers : conn[a] = conn[b] /\ conn[a] # NoSub => a = b

\* The cursor is at or beyond everything the browser handled.
SeenIsPast == \A b \in Browsers : Range(seen[b]) \subseteq 1..cursor[b]

\* Nothing it handled will come again over that connection.
SeenNeverComes ==
    \A b \in Browsers :
        conn[b] # NoSub => (Unread(b) \cup Owed(conn[b])) \cap Range(seen[b]) = {}

ServerInv == HubInv /\ DeliveryInv

BrowserInv == Cursors /\ OneBrowserEach /\ ResumeInv /\ SeenIsPast /\ SeenNeverComes

-----------------------------------------------------------------------------
(* The server under its browsers *)

\* What a subscriber is backfilled with is above the cursor it came with.
LEMMA BackfillIsAbove ==
    ASSUME CoreInv, NEW c \in Nat
    PROVE  \A i \in 1..Len(Backfill(c)) : Backfill(c)[i] > c
<1> DEFINE k == Skipped(c)
           X == {j \in 1..Len(backlog) : backlog[j] <= c}
<1>1. /\ seq \in Nat
      /\ Len(backlog) \in Nat
      /\ \A j \in 1..Len(backlog) : backlog[j] = seq - Len(backlog) + j
  BY LenProperties DEF CoreInv, TypeOK, BacklogIsNewestSuffix
<1>2. /\ k \in 0..Len(backlog)
      /\ Len(Backfill(c)) \in Nat
      /\ k + Len(Backfill(c)) <= Len(backlog)
      /\ \A i \in 1..Len(Backfill(c)) : Backfill(c)[i] = backlog[k + i]
  <2>1. /\ k \in 0..Len(backlog)
        /\ Len(Backfill(c)) = IF Len(backlog) - k > ChanCap THEN ChanCap ELSE Len(backlog) - k
        /\ \A i \in 1..Len(Backfill(c)) : Backfill(c)[i] = backlog[k + i]
    BY BackfillProperties DEF CoreInv, TypeOK
  <2> HIDE DEF k
  <2>2. Len(Backfill(c)) \in Nat /\ k + Len(Backfill(c)) <= Len(backlog)
    BY <1>1, <2>1, SizesAssumption
  <2>3. QED BY <2>1, <2>2
<1>3. k = Cardinality(X)
  BY DEF Skipped
<1> HIDE DEF k
<1> SUFFICES ASSUME NEW i \in 1..Len(Backfill(c)), Backfill(c)[i] <= c PROVE FALSE
  <2>1. \A i \in 1..Len(Backfill(c)) : Backfill(c)[i] \in Int
    <3> TAKE i \in 1..Len(Backfill(c))
    <3>1. k + i \in 1..Len(backlog)
      BY <1>1, <1>2
    <3>2. QED BY <1>1, <1>2, <3>1
  <2>2. QED BY <2>1
<1>4. k + i \in 1..Len(backlog) /\ k + i \in Nat /\ backlog[k + i] <= c
  BY <1>1, <1>2
<1>5. 1..(k + i) \subseteq X
  BY <1>1, <1>4
<1>6. IsFiniteSet(1..Len(backlog))
  BY <1>1, FS_Interval
<1>7. IsFiniteSet(X)
  BY <1>6, FS_Subset
<1>8. Cardinality(1..(k + i)) <= Cardinality(X)
  BY <1>5, <1>7, FS_Subset
<1>9. Cardinality(1..(k + i)) = k + i
  BY <1>4, FS_Interval
<1>10. QED BY <1>2, <1>3, <1>8, <1>9

\* A restarted server is one that starts.
LEMMA RestartIsInit == Restart => Init'
BY DEF Restart, Init

\* A step of a serving server is a step of Hub.
LEMMA ServingIsHubStep == Cursors /\ Serving => [Next]_vars
<1> SUFFICES ASSUME Cursors, Serving PROVE [Next]_vars
  OBVIOUS
<1>1. ASSUME NEW b \in Browsers, NEW s \in Subs, Connect(b, s) PROVE Next
  <2>1. Subscribe(s, cursor[b]) /\ cursor[b] \in 0..MaxSeq
    BY <1>1 DEF Connect, Cursors
  <2>2. QED BY <2>1 DEF Next, Serving
<1>2. ASSUME NEW s \in Subs, ServeReturns(s) PROVE Next
  BY <1>2 DEF ServeReturns, Next, Serving
<1>3. ASSUME NEW b \in Browsers, OnMessage(b) \/ Break(b) \/ OnClose(b) PROVE UNCHANGED vars
  BY <1>3 DEF OnMessage, Break, OnClose
<1>4. QED BY <1>1, <1>2, <1>3 DEF Serving, Next, Publish

\* Whatever Hub promises while it runs holds of the process that replaced it, too.
LEMMA FreshServer == Init' => ServerInv'
<1>1. Init => ServerInv
  BY InitCoreInv, InitOwnership, InitDelivery DEF ServerInv, HubInv
<1>2. QED BY <1>1, PTL

LEMMA ServerStep == ServerInv /\ Cursors /\ [ReconnectNext]_reconnectVars => ServerInv'
<1> SUFFICES ASSUME ServerInv, Cursors, [ReconnectNext]_reconnectVars PROVE ServerInv'
  OBVIOUS
<1>1. ASSUME [Next]_vars PROVE ServerInv'
  BY <1>1, NextCoreInv, NextOwnership, NextDelivery DEF ServerInv, HubInv, CoreInv
<1>2. CASE Serving
  BY <1>1, <1>2, ServingIsHubStep
<1>3. CASE Restart
  BY <1>3, RestartIsInit, FreshServer
<1>4. CASE UNCHANGED reconnectVars
  BY <1>1, <1>4 DEF reconnectVars
<1>5. QED BY <1>2, <1>3, <1>4 DEF ReconnectNext

\* What a step of the server, other than Subscribe, does to a subscription: it owes no
\* more than before, or the next number besides, or hands over a message it owed, and
\* that to a registered subscriber only.
LEMMA HubEffect ==
    ASSUME ServerInv, ~closed, NEW t \in Subs,
           \/ \E p \in Publishers : Broadcast(p) \/ PublisherStep(p)
           \/ \E s \in Subs : Receive(s) \/ Leave(s)
    PROVE  \/ Stream(t)' = Stream(t) /\ Owed(t)' \subseteq Owed(t)
           \/ /\ Stream(t)' = Stream(t) /\ Owed(t)' \subseteq Owed(t) \cup {seq + 1}
              /\ seq' = seq + 1
           \/ /\ t \in subs
              /\ \E n \in Owed(t) : /\ Stream(t)' = Append(Stream(t), n)
                                    /\ Owed(t)' = Owed(t) \ {n}
<1> USE DEF ServerInv, HubInv
<1>1. ASSUME NEW p \in Publishers, Broadcast(p)
      PROVE  /\ Stream(t)' = Stream(t) /\ Owed(t)' \subseteq Owed(t) \cup {seq + 1}
             /\ seq' = seq + 1
  BY <1>1, BroadcastEffect DEF Broadcast
<1>2. ASSUME NEW p \in Publishers, NEW s \in Subs, Deliver(p, s)
      PROVE  \/ Stream(t)' = Stream(t) /\ Owed(t)' \subseteq Owed(t)
             \/ /\ t \in subs
                /\ \E n \in Owed(t) : /\ Stream(t)' = Append(Stream(t), n)
                                      /\ Owed(t)' = Owed(t) \ {n}
  <2>1. s \in joined /\ s \notin chClosed
    BY <1>2 DEF Deliver, Visit, DeliveryInv, StrangersHaveNothing
  <2>2. s \in subs
    BY <2>1 DEF OwnershipInv, CloseOwnership
  <2>3. QED BY <1>2, <2>2, DeliverEffect
<1>3. ASSUME NEW p \in Publishers, NEW s \in Subs, FindFull(p, s) \/ SendOnClosed(p, s)
      PROVE  Stream(t)' = Stream(t) /\ Owed(t)' \subseteq Owed(t)
  BY <1>3, FindFullEffect, SendOnClosedEffect
<1>4. ASSUME NEW p \in Publishers, DropSlow(p)
      PROVE  Stream(t)' = Stream(t) /\ Owed(t)' \subseteq Owed(t)
  BY <1>4, DropSlowEffect
<1>5. ASSUME NEW s \in Subs, Leave(s) PROVE Stream(t)' = Stream(t) /\ Owed(t)' \subseteq Owed(t)
  BY <1>5 DEF Leave, Unsubscribe, pubVars, histVars, Stream, Owed
<1>6. ASSUME NEW s \in Subs, Receive(s) PROVE Stream(t)' = Stream(t) /\ Owed(t)' \subseteq Owed(t)
  BY <1>6, ReceiveEffect
<1>7. QED BY <1>1, <1>2, <1>3, <1>4, <1>5, <1>6 DEF PublisherStep

\* The same, element by element: a stream only grows, by what was owed.
LEMMA StreamGrows ==
    ASSUME ServerInv, ~closed, NEW t \in Subs,
           \/ \E p \in Publishers : Broadcast(p) \/ PublisherStep(p)
           \/ \E s \in Subs : Receive(s) \/ Leave(s)
    PROVE  /\ Len(Stream(t)) \in Nat /\ Len(Stream(t)') \in Nat
           /\ Len(Stream(t)) <= Len(Stream(t)')
           /\ DOMAIN Stream(t) = 1..Len(Stream(t))
           /\ DOMAIN Stream(t)' = 1..Len(Stream(t)')
           /\ \A i \in 1..Len(Stream(t)) : Stream(t)'[i] = Stream(t)[i]
           /\ \A i \in (Len(Stream(t)) + 1)..Len(Stream(t)') : Stream(t)'[i] \in Owed(t) /\ t \in subs
           /\ Owed(t)' \subseteq Owed(t) \cup (IF seq' = seq + 1 THEN {seq + 1} ELSE {})
<1>1. Stream(t) \in Seq(1..seq) /\ Owed(t) \subseteq 1..seq
  BY DeliveryTypes DEF ServerInv, HubInv
<1>2. Len(Stream(t)) \in Nat /\ DOMAIN Stream(t) = 1..Len(Stream(t))
  BY <1>1, LenProperties
<1>3. CASE Stream(t)' = Stream(t) /\ Owed(t)' \subseteq Owed(t)
  BY <1>2, <1>3
<1>4. CASE /\ Stream(t)' = Stream(t) /\ Owed(t)' \subseteq Owed(t) \cup {seq + 1}
           /\ seq' = seq + 1
  BY <1>2, <1>4
<1>5. ASSUME t \in subs, NEW n \in Owed(t), Stream(t)' = Append(Stream(t), n),
             Owed(t)' = Owed(t) \ {n}
      PROVE  /\ Len(Stream(t)') = Len(Stream(t)) + 1
             /\ DOMAIN Stream(t)' = 1..Len(Stream(t)')
             /\ \A i \in 1..Len(Stream(t)) : Stream(t)'[i] = Stream(t)[i]
             /\ Stream(t)'[Len(Stream(t)) + 1] = n
  <2> DEFINE q == Stream(t)
             S == 1..seq
  <2>1. q \in Seq(S) /\ n \in S
    BY <1>1
  <2> HIDE DEF q, S
  <2>2. /\ Append(q, n) \in Seq(S)
        /\ Len(Append(q, n)) = Len(q) + 1
        /\ \A i \in 1..Len(q) : Append(q, n)[i] = q[i]
        /\ Append(q, n)[Len(q) + 1] = n
    BY <2>1, AppendProperties
  <2>3. DOMAIN Append(q, n) = 1..Len(Append(q, n))
    BY <2>2, LenProperties
  <2>4. Stream(t)' = Append(q, n)
    BY <1>5 DEF q
  <2>5. QED BY <2>2, <2>3, <2>4 DEF q
<1>6. ASSUME t \in subs, NEW n \in Owed(t), Stream(t)' = Append(Stream(t), n),
             Owed(t)' = Owed(t) \ {n}
      PROVE  /\ Len(Stream(t)') \in Nat /\ Len(Stream(t)) <= Len(Stream(t)')
             /\ \A i \in (Len(Stream(t)) + 1)..Len(Stream(t)') : Stream(t)'[i] \in Owed(t)
  BY <1>2, <1>5, <1>6
<1>7. QED BY <1>2, <1>3, <1>4, <1>5, <1>6, HubEffect

-----------------------------------------------------------------------------
(* The browsers *)

LEMMA InitBrowsers == ReconnectInit => BrowserInv
<1> SUFFICES ASSUME ReconnectInit PROVE BrowserInv
  OBVIOUS
<1>1. TypeOK
  BY InitCoreInv DEF ReconnectInit, CoreInv
<1>2. \A b \in Browsers : /\ conn[b] = NoSub /\ cursor[b] = 0 /\ read[b] = 0 /\ stale[b] = 0
                          /\ seen[b] = <<>> /\ seen[b] \in Seq(1..seq)
                          /\ Range(seen[b]) = {} /\ DOMAIN seen[b] = {}
  <2>1. <<>> \in Seq(1..seq)
    BY EmptySeq
  <2>2. Range(<<>>) = {}
    BY <2>1 DEF Range
  <2>3. QED BY <2>1, <2>2 DEF ReconnectInit
<1>3. seq = 0 /\ closed = FALSE /\ joined = {}
  BY DEF ReconnectInit, Init
<1>4. Cursors
  BY <1>3, SizesAssumption DEF ReconnectInit, Cursors
<1>5. OneBrowserEach /\ SeenIsPast /\ SeenNeverComes
  BY <1>2 DEF OneBrowserEach, SeenIsPast, SeenNeverComes
<1>6. ReconnectTypeOK
  BY <1>1, <1>2, <1>3, BreaksAssumption DEF ReconnectTypeOK, ReconnectInit
<1>7. NoDuplicateDelivery
  BY <1>2 DEF NoDuplicateDelivery
<1>8. QED BY <1>4, <1>5, <1>6, <1>7 DEF BrowserInv, ResumeInv

\* A step of the server that leaves the browsers alone.
LEMMA ServerStepBrowsers ==
    ASSUME ServerInv, ServerInv', BrowserInv, UNCHANGED <<clientVars, cutOff>>,
           overtaken' \in [Browsers -> SUBSET (1..seq)],
           \/ \E p \in Publishers : Broadcast(p) \/ PublisherStep(p)
           \/ \E s \in Subs : Receive(s) \/ Leave(s)
    PROVE  BrowserInv'
<1>1. /\ seq \in Nat /\ seq' \in Nat
      /\ seq' = seq \/ seq' = seq + 1
      /\ seq' <= MaxSeq
      /\ UNCHANGED <<closed, joined>>
  <2>1. seq \in Nat /\ seq <= MaxSeq
    BY DEF ServerInv, HubInv, CoreInv, TypeOK, BrowserInv, Cursors
  <2>2. ASSUME NEW p \in Publishers, Broadcast(p)
        PROVE  /\ seq' = seq + 1 /\ seq < MaxSeq
               /\ UNCHANGED <<closed, joined>>
    BY <2>2 DEF Broadcast
  <2>3. ASSUME NEW p \in Publishers, PublisherStep(p)
        PROVE  UNCHANGED <<seq, closed, joined>>
    BY <2>3 DEF PublisherStep, Deliver, FindFull, SendOnClosed, DropSlow, Unsubscribe,
                hubVars, histVars
  <2>4. ASSUME NEW s \in Subs, Receive(s) \/ Leave(s)
        PROVE  UNCHANGED <<seq, closed, joined>>
    BY <2>4 DEF Receive, Leave, Unsubscribe, hubVars, histVars
  <2>5. QED BY <2>1, <2>2, <2>3, <2>4, SizesAssumption
<1>2. UNCHANGED <<conn, cursor, read, broken, breaks, restarts, seen, agedOut, stale, buried>>
  BY DEF clientVars
<1>3. Cursors' /\ OneBrowserEach' /\ SeenIsPast' /\ NoDuplicateDelivery'
  BY <1>1, <1>2 DEF BrowserInv, Cursors, OneBrowserEach, SeenIsPast, ResumeInv, NoDuplicateDelivery
<1>4. ReconnectTypeOK'
  <2>1. TypeOK'
    BY DEF ServerInv, HubInv, CoreInv
  <2>2. 1..seq \subseteq 1..seq' /\ 0..seq \subseteq 0..seq'
    BY <1>1
  <2>3. seen' \in [Browsers -> Seq(1..seq')]
    BY <1>1, <1>2, SeqFunctionsGrow DEF BrowserInv, ResumeInv, ReconnectTypeOK
  <2>4. /\ agedOut' \in [Browsers -> SUBSET (1..seq')]
        /\ buried' \in [Browsers -> SUBSET (1..seq')]
        /\ cutOff' \in [Browsers -> SUBSET (1..seq')]
        /\ overtaken' \in [Browsers -> SUBSET (1..seq')]
    BY <1>2, <2>2 DEF BrowserInv, ResumeInv, ReconnectTypeOK
  <2>5. \A b \in Browsers : cursor'[b] \in 0..seq' \cup {stale'[b]}
    BY <1>2, <2>2 DEF BrowserInv, ResumeInv, ReconnectTypeOK
  <2>6. QED BY <1>1, <1>2, <2>1, <2>3, <2>4, <2>5 DEF BrowserInv, ResumeInv, ReconnectTypeOK
<1>5. SeenNeverComes'
  <2> SUFFICES ASSUME NEW b \in Browsers, conn[b] # NoSub, NEW n \in Range(seen[b])
               PROVE  n \notin Unread(b)' /\ n \notin Owed(conn[b])'
    BY <1>2 DEF SeenNeverComes
  <2>1. PICK t \in Subs : t = conn[b]
    BY DEF BrowserInv, ResumeInv, ReconnectTypeOK
  <2> DEFINE q == Stream(t)
  <2>2. /\ q \in Seq(1..seq)
        /\ Owed(t) \subseteq 1..seq
        /\ n \in 1..seq
    <3>1. seen[b] \in Seq(1..seq)
      BY DEF BrowserInv, ResumeInv, ReconnectTypeOK
    <3>2. QED BY <2>1, <3>1, RangeOfSeq, DeliveryTypes DEF ServerInv, HubInv
  <2>3. n \notin Owed(t) /\ \A i \in (read[b] + 1)..Len(q) : q[i] # n
    BY <2>1 DEF BrowserInv, SeenNeverComes, Unread
  <2>4. Unread(b)' = {Stream(t)'[i] : i \in (read[b] + 1)..Len(Stream(t)')}
    BY <1>2, <2>1 DEF Unread, Stream
  <2>5. Owed(conn[b])' = Owed(t)'
    BY <1>2, <2>1 DEF Owed
  <2>6. CASE Stream(t)' = q /\ Owed(t)' \subseteq Owed(t)
    BY <2>3, <2>4, <2>5, <2>6
  <2>7. CASE Stream(t)' = q /\ Owed(t)' \subseteq Owed(t) \cup {seq + 1}
    BY <1>1, <2>2, <2>3, <2>4, <2>5, <2>7
  <2>8. ASSUME NEW m \in Owed(t), Stream(t)' = Append(q, m), Owed(t)' = Owed(t) \ {m}
        PROVE  n \notin Unread(b)' /\ n \notin Owed(conn[b])'
    <3>1. m # n /\ m \in 1..seq
      BY <2>2, <2>3
    <3> HIDE DEF q
    <3>2. /\ Len(q) \in Nat
          /\ Len(Append(q, m)) = Len(q) + 1
          /\ \A i \in 1..Len(q) : Append(q, m)[i] = q[i]
          /\ Append(q, m)[Len(q) + 1] = m
      BY <2>2, <3>1, AppendProperties, LenProperties
    <3>3. read[b] \in Nat
      BY DEF BrowserInv, ResumeInv, ReconnectTypeOK
    <3>4. ASSUME NEW i \in (read[b] + 1)..(Len(q) + 1) PROVE Append(q, m)[i] # n
      <4>1. CASE i = Len(q) + 1
        BY <3>1, <3>2, <4>1
      <4>2. CASE i # Len(q) + 1
        <5>1. i \in (read[b] + 1)..Len(q) /\ i \in 1..Len(q)
          BY <3>2, <3>3, <4>2
        <5>2. QED BY <2>3, <3>2, <5>1
      <4>3. QED BY <4>1, <4>2
    <3>5. n \notin Unread(b)'
      BY <2>4, <2>8, <3>2, <3>4
    <3>6. QED BY <2>3, <2>5, <2>8, <3>5
  <2>9. ~closed
    BY DEF BrowserInv, Cursors
  <2>10. QED BY <2>1, <2>6, <2>7, <2>8, <2>9, HubEffect
<1>6. QED BY <1>3, <1>4, <1>5 DEF BrowserInv, ResumeInv

\* A new subscription carries the backfill, and nothing is owed to it.
LEMMA ConnectEffect ==
    ASSUME ServerInv, BrowserInv, NEW b \in Browsers, NEW s \in Subs, Connect(b, s)
    PROVE  /\ s \notin joined /\ s # NoSub
           /\ cursor[b] \in Nat
           /\ Stream(s)' = Backfill(cursor[b])
           /\ Backfill(cursor[b]) \in Seq(1..seq)
           /\ Owed(s)' = {}
           /\ \A r \in Subs \ {s} : Stream(r)' = Stream(r) /\ Owed(r)' = Owed(r)
<1>1. Subscribe(s, cursor[b]) /\ s \notin joined /\ ~closed /\ cursor[b] \in Nat
  BY SizesAssumption DEF Connect, Subscribe, BrowserInv, Cursors
<1>2. got'[s] = <<>>
  BY <1>1 DEF Subscribe, ServerInv, DeliveryInv, StrangersHaveNothing
<1>3. chan'[s] = Backfill(cursor[b])
  BY <1>1 DEF Subscribe, ServerInv, HubInv, CoreInv, TypeOK
<1>4. Backfill(cursor[b]) \in Seq(1..seq)
  BY BackfillProperties DEF ServerInv, HubInv, CoreInv, TypeOK
<1>5. <<>> \o Backfill(cursor[b]) = Backfill(cursor[b])
  BY <1>4, ConcatEmptySeq
<1>6. Stream(s)' = Backfill(cursor[b])
  BY <1>2, <1>3, <1>5 DEF Stream
<1>7. /\ Owed(s)' = {}
      /\ \A r \in Subs \ {s} : Stream(r)' = Stream(r) /\ Owed(r)' = Owed(r)
  BY <1>1, SubscribeEffect DEF ServerInv, HubInv, DeliveryInv
<1>8. QED BY <1>1, <1>4, <1>6, <1>7, NoSubAssumption

\* What a browser reads is the next message of the stream, and changes no server.
LEMMA OnMessageEffect ==
    ASSUME ServerInv, BrowserInv, NEW b \in Browsers, OnMessage(b)
    PROVE  \E s \in Subs : \E i \in 1..Len(Stream(s)) :
               /\ s = conn[b] /\ s # NoSub
               /\ i = read[b] + 1
               /\ Stream(s)[i] \in 1..seq
               /\ cursor' = [cursor EXCEPT ![b] = IF Stream(s)[i] > cursor[b]
                                                  THEN Stream(s)[i] ELSE cursor[b]]
               /\ seen' = [seen EXCEPT ![b] = Append(seen[b], Stream(s)[i])]
               /\ read' = [read EXCEPT ![b] = i]
<1>1. PICK s \in Subs : s = conn[b] /\ s # NoSub
  BY NoSubAssumption DEF OnMessage, BrowserInv, ResumeInv, ReconnectTypeOK
<1> DEFINE g == got[s]
           c == chan[s]
           i == read[b] + 1
<1>2. /\ read[b] < Len(g)
      /\ cursor' = [cursor EXCEPT ![b] = IF g[i] > cursor[b] THEN g[i] ELSE cursor[b]]
      /\ seen' = [seen EXCEPT ![b] = Append(seen[b], g[i])]
      /\ read' = [read EXCEPT ![b] = i]
  BY <1>1 DEF OnMessage
<1>3. read[b] \in Nat
  BY DEF BrowserInv, ResumeInv, ReconnectTypeOK
<1>4. g \in Seq(1..seq) /\ c \in Seq(1..seq)
  BY DeliveryTypes DEF ServerInv, HubInv
<1> HIDE DEF g, c
\* What the bridge wrote is the beginning of the stream.
<1>5. /\ Len(g \o c) = Len(g) + Len(c)
      /\ \A k \in 1..Len(g) + Len(c) : (g \o c)[k] = IF k <= Len(g) THEN g[k] ELSE c[k - Len(g)]
      /\ Len(g) \in Nat /\ Len(c) \in Nat
  BY <1>4, ConcatProperties, LenProperties
<1>6. i \in 1..Len(g)
  BY <1>2, <1>3, <1>5
<1>7. g[i] \in 1..seq
  BY <1>4, <1>6, ElementOfSeq
<1> HIDE DEF i
<1>8. i \in 1..(Len(g) + Len(c)) /\ i <= Len(g)
  BY <1>5, <1>6
<1>9. Stream(s) = g \o c
  BY DEF Stream, g, c
<1>10. i \in 1..Len(Stream(s)) /\ Stream(s)[i] = g[i]
  BY <1>5, <1>8, <1>9
<1>11. QED BY <1>1, <1>2, <1>7, <1>10 DEF i

\* A browser that connects has nothing of the past ahead: the backfill is above its
\* cursor, and nobody owes its new subscription anything.
LEMMA ConnectBrowsers ==
    ASSUME ServerInv, ServerInv', BrowserInv, NEW b \in Browsers, NEW s \in Subs, Connect(b, s)
    PROVE  BrowserInv'
<1>1. /\ conn[b] = NoSub
      /\ Subscribe(s, cursor[b])
      /\ s \notin joined
      /\ joined' = joined \cup {s}
      /\ conn' = [conn EXCEPT ![b] = s]
      /\ read' = [read EXCEPT ![b] = 0]
      /\ agedOut' = [agedOut EXCEPT ![b] = agedOut[b] \cup ((cursor[b] + 1)..seq \ Range(backlog))]
      /\ buried' = [buried EXCEPT ![b] =
             buried[b] \cup {n \in 1..seq : n <= stale[b] /\ n \notin Range(seen[b])}]
      /\ cutOff' = [cutOff EXCEPT ![b] = cutOff[b] \cup TooMany(cursor[b])]
      /\ UNCHANGED <<seq, closed, cursor, broken, breaks, restarts, seen, stale, overtaken>>
  BY DEF Connect, Subscribe
<1>2. /\ conn \in [Browsers -> Subs \cup {NoSub}]
      /\ read \in [Browsers -> Nat]
      /\ cursor \in [Browsers -> 0..MaxSeq]
      /\ ~closed
      /\ seq \in Nat
  BY DEF ServerInv, HubInv, CoreInv, TypeOK, BrowserInv, ResumeInv, ReconnectTypeOK, Cursors
<1>3. Cursors' /\ SeenIsPast' /\ NoDuplicateDelivery'
  BY <1>1 DEF BrowserInv, Cursors, SeenIsPast, ResumeInv, NoDuplicateDelivery
<1>4. OneBrowserEach'
  BY <1>1, <1>2, NoSubAssumption DEF BrowserInv, OneBrowserEach
<1>5. ReconnectTypeOK'
  <2>1. TypeOK'
    BY DEF ServerInv, HubInv, CoreInv
  <2>2. /\ conn' \in [Browsers -> Subs \cup {NoSub}]
        /\ read' \in [Browsers -> Nat]
        /\ broken' \subseteq joined'
    BY <1>1, <1>2 DEF BrowserInv, ResumeInv, ReconnectTypeOK
  <2>3. (cursor[b] + 1)..seq \subseteq 1..seq
    <3>1. cursor[b] \in Nat
      BY <1>2, SizesAssumption
    <3>2. QED BY <1>2, <3>1
  <2>4. agedOut' \in [Browsers -> SUBSET (1..seq)] /\ buried' \in [Browsers -> SUBSET (1..seq)]
    <3>1. agedOut \in [Browsers -> SUBSET (1..seq)] /\ buried \in [Browsers -> SUBSET (1..seq)]
      BY DEF BrowserInv, ResumeInv, ReconnectTypeOK
    <3>2. agedOut[b] \cup ((cursor[b] + 1)..seq \ Range(backlog)) \subseteq 1..seq
      BY <2>3, <3>1
    <3>3. buried[b] \cup {n \in 1..seq : n <= stale[b] /\ n \notin Range(seen[b])} \subseteq 1..seq
      BY <3>1
    <3>4. QED BY <1>1, <3>1, <3>2, <3>3
  <2>5. cutOff' \in [Browsers -> SUBSET (1..seq)]
    <3>1. cutOff \in [Browsers -> SUBSET (1..seq)]
      BY DEF BrowserInv, ResumeInv, ReconnectTypeOK
    <3>2. cutOff[b] \cup TooMany(cursor[b]) \subseteq 1..seq
      BY <3>1 DEF TooMany
    <3>3. QED BY <1>1, <3>1, <3>2
  <2>6. QED BY <1>1, <2>1, <2>2, <2>4, <2>5 DEF BrowserInv, ResumeInv, ReconnectTypeOK
<1>6. SeenNeverComes'
  <2> SUFFICES ASSUME NEW a \in Browsers, conn'[a] # NoSub, NEW n \in Range(seen[a])
               PROVE  n \notin Unread(a)' /\ n \notin Owed(conn[a])'
    BY <1>1 DEF SeenNeverComes
  <2>1. PICK t \in Subs : t = conn'[a]
    BY <1>1, <1>2
  <2>2. /\ Unread(a)' = {Stream(t)'[i] : i \in (read'[a] + 1)..Len(Stream(t)')}
        /\ Owed(conn[a])' = Owed(t)'
    BY <2>1 DEF Unread, Stream, Owed
  <2>3. \A r \in Subs \ {s} : Stream(r)' = Stream(r) /\ Owed(r)' = Owed(r)
    BY ConnectEffect
  <2>4. CASE a # b
    <3>1. t = conn[a] /\ read'[a] = read[a] /\ t # s /\ t # NoSub
      BY <1>1, <1>2, <2>1, <2>4, NoSubAssumption DEF BrowserInv, OneBrowserEach
    <3>2. Stream(t)' = Stream(t) /\ Owed(t)' = Owed(t)
      BY <2>3, <3>1
    <3>3. Unread(a) = {Stream(t)[i] : i \in (read[a] + 1)..Len(Stream(t))}
      BY <3>1 DEF Unread
    <3>4. Unread(a)' = Unread(a)
      BY <2>2, <3>1, <3>2, <3>3
    <3>5. QED BY <2>2, <3>1, <3>2, <3>4 DEF BrowserInv, SeenNeverComes
  <2>5. CASE a = b
    <3>1. t = s
      BY <1>1, <1>2, <2>1, <2>5
    <3>2. Owed(s)' = {}
      BY ConnectEffect
    <3>3. Stream(s)' = Backfill(cursor[b])
      BY ConnectEffect
    <3>4. n <= cursor[b] /\ cursor[b] \in Nat
      <4>1. cursor[b] \in Nat
        BY <1>2, SizesAssumption
      <4>2. n \in 1..cursor[b]
        BY <2>5 DEF BrowserInv, SeenIsPast
      <4>3. QED BY <4>1, <4>2
    <3>5. PICK c \in Nat : c = cursor[b]
      BY <3>4
    <3>6. \A i \in 1..Len(Backfill(c)) : Backfill(c)[i] > c
      BY BackfillIsAbove DEF ServerInv, HubInv
    <3>7. Unread(a)' = {Backfill(c)[i] : i \in 1..Len(Backfill(c))}
      <4>1. read'[a] + 1 = 1
        BY <1>1, <1>2, <2>5
      <4>2. Stream(t)' = Backfill(c)
        BY <3>1, <3>3, <3>5
      <4>3. QED BY <2>2, <4>1, <4>2
    <3>8. n \in Nat
      <4>1. n \in 1..cursor[b]
        BY <2>5 DEF BrowserInv, SeenIsPast
      <4>2. QED BY <4>1
    <3>9. \A i \in 1..Len(Backfill(c)) : Backfill(c)[i] # n
      BY <3>4, <3>5, <3>6, <3>8
    <3>10. Owed(conn[a])' = {}
      BY <2>2, <3>1, <3>2
    <3>11. QED BY <3>7, <3>9, <3>10
  <2>6. QED BY <2>4, <2>5
<1>7. QED BY <1>3, <1>4, <1>5, <1>6 DEF BrowserInv, ResumeInv

\* A browser that handles a message is not past it, and will not meet it again.
LEMMA OnMessageBrowsers ==
    ASSUME ServerInv, BrowserInv, NEW b \in Browsers, OnMessage(b)
    PROVE  BrowserInv'
<1>0. PICK s \in Subs : s = conn[b]
  BY DEF OnMessage, BrowserInv, ResumeInv, ReconnectTypeOK
<1>1. PICK i \in 1..Len(Stream(s)) :
           /\ s = conn[b] /\ s # NoSub
           /\ i = read[b] + 1
           /\ Stream(s)[i] \in 1..seq
           /\ cursor' = [cursor EXCEPT ![b] = IF Stream(s)[i] > cursor[b]
                                              THEN Stream(s)[i] ELSE cursor[b]]
           /\ seen' = [seen EXCEPT ![b] = Append(seen[b], Stream(s)[i])]
           /\ read' = [read EXCEPT ![b] = i]
  BY <1>0, OnMessageEffect
<1> DEFINE q == Stream(s)
           n == q[i]
<1>2. UNCHANGED <<vars, conn, broken, breaks, restarts, agedOut, stale, buried, cutOff, overtaken>>
  BY DEF OnMessage, lossVars
<1>3. UNCHANGED <<seq, closed, joined, chan, got, sending, targets, dropping>>
  BY <1>2 DEF vars, hubVars, chanVars, pubVars, histVars
<1>4. /\ seq \in Nat /\ seq <= MaxSeq
      /\ cursor \in [Browsers -> 0..MaxSeq]
      /\ read \in [Browsers -> Nat]
      /\ seen \in [Browsers -> Seq(1..seq)]
      /\ conn \in [Browsers -> Subs \cup {NoSub}]
  BY DEF ServerInv, HubInv, CoreInv, TypeOK, BrowserInv, ResumeInv, ReconnectTypeOK, Cursors
<1>5. q \in Seq(1..seq) /\ Len(q) \in Nat
  BY DeliveryTypes, LenProperties DEF ServerInv, HubInv
<1>7. n \in 1..seq
  BY <1>1
<1>8. i \in 1..Len(q) /\ Distinct(q)
  BY <1>1 DEF ServerInv, DeliveryInv, AtMostOnce, Distinct
<1>9. /\ n \in Unread(b)
      /\ n \notin Range(seen[b])
      /\ n \notin Owed(s)
  <2>1. n \in Unread(b)
    BY <1>1, <1>4, <1>8 DEF Unread
  <2>2. n \notin Range(seen[b])
    BY <1>1, <2>1 DEF BrowserInv, SeenNeverComes
  <2>3. n \in Range(q)
    <3>1. DOMAIN q = 1..Len(q)
      BY <1>5, LenProperties
    <3>2. QED BY <1>8, <3>1 DEF Range
  <2>4. n \notin Owed(s)
    BY <2>3 DEF ServerInv, DeliveryInv, AtMostOnce
  <2>5. QED BY <2>1, <2>2, <2>4
<1>10. /\ Append(seen[b], n) \in Seq(1..seq)
       /\ Range(Append(seen[b], n)) = Range(seen[b]) \cup {n}
       /\ Distinct(Append(seen[b], n))
  <2> DEFINE r == seen[b]
             S == 1..seq
  <2>1. r \in Seq(S) /\ n \in S /\ n \notin Range(r) /\ Distinct(r)
    BY <1>4, <1>7, <1>9 DEF BrowserInv, ResumeInv, NoDuplicateDelivery, Distinct
  <2> HIDE DEF r, S, n
  <2>2. /\ Append(r, n) \in Seq(S)
        /\ Range(Append(r, n)) = Range(r) \cup {n}
        /\ Distinct(Append(r, n))
    BY <2>1, AppendNew, AppendProperties
  <2>3. QED BY <2>2 DEF r, S
<1>6. /\ cursor' = [cursor EXCEPT ![b] = IF n > cursor[b] THEN n ELSE cursor[b]]
      /\ seen' = [seen EXCEPT ![b] = Append(seen[b], n)]
      /\ read' = [read EXCEPT ![b] = i]
  BY <1>1
<1> HIDE DEF n
<1>11. seen'[b] = Append(seen[b], n) /\ \A a \in Browsers \ {b} : seen'[a] = seen[a]
  BY <1>1, <1>2, <1>4, <1>6
<1>12. cursor'[b] \in 0..MaxSeq /\ cursor'[b] >= cursor[b] /\ cursor'[b] >= n
  <2>1. cursor[b] \in Nat /\ n \in Nat /\ n <= MaxSeq /\ cursor[b] <= MaxSeq
    BY <1>4, <1>7, SizesAssumption
  <2>2. cursor'[b] = IF n > cursor[b] THEN n ELSE cursor[b]
    BY <1>1, <1>2, <1>4, <1>6
  <2>3. QED BY <2>1, <2>2, SizesAssumption
<1>13. Cursors'
  <2>1. cursor' \in [Browsers -> 0..MaxSeq]
    BY <1>1, <1>2, <1>4, <1>6, <1>12
  <2>2. QED BY <1>3, <2>1 DEF BrowserInv, Cursors
<1>14. OneBrowserEach'
  BY <1>1, <1>2, <1>3 DEF BrowserInv, OneBrowserEach
<1>15. ReconnectTypeOK'
  <2>1. TypeOK'
    <3>1. TypeOK
      BY DEF ServerInv, HubInv, CoreInv
    <3>2. UNCHANGED vars
      BY <1>2
    <3>3. QED BY <3>1, <3>2 DEF TypeOK, vars, hubVars, chanVars, pubVars, stopVars, histVars
  <2>2. seen' \in [Browsers -> Seq(1..seq)]
    BY <1>1, <1>2, <1>4, <1>6, <1>10
  <2>3. \A a \in Browsers : cursor'[a] \in 0..seq \cup {stale[a]}
    <3>1. n \in 0..seq
      BY <1>7
    <3>2. QED BY <1>1, <1>2, <1>4, <1>6, <3>1 DEF BrowserInv, ResumeInv, ReconnectTypeOK
  <2>4. read' \in [Browsers -> Nat]
    BY <1>1, <1>2, <1>4, <1>6
  <2>5. QED BY <1>1, <1>2, <1>3, <1>6, <2>1, <2>2, <2>3, <2>4 DEF BrowserInv, ResumeInv, ReconnectTypeOK
<1>16. SeenIsPast'
  <2> SUFFICES ASSUME NEW a \in Browsers, NEW m \in Range(seen'[a])
               PROVE  m \in 1..cursor'[a]
    BY DEF SeenIsPast
  <2>1. CASE a # b
    <3>1. seen'[a] = seen[a] /\ cursor'[a] = cursor[a]
      BY <1>1, <1>2, <1>4, <1>6, <2>1
    <3>2. QED BY <3>1 DEF BrowserInv, SeenIsPast
  <2>2. CASE a = b
    <3>1. m \in Range(seen[b]) \cup {n}
      BY <1>10, <1>11, <2>2
    <3>2. m \in 1..cursor[b] \/ m = n
      BY <3>1 DEF BrowserInv, SeenIsPast
    <3>3. cursor[b] \in Nat
      BY <1>4, SizesAssumption
    <3>4. QED BY <1>7, <1>12, <2>2, <3>2, <3>3
  <2>3. QED BY <2>1, <2>2
<1>17. NoDuplicateDelivery'
  <2> SUFFICES ASSUME NEW a \in Browsers PROVE Distinct(seen'[a])
    BY DEF NoDuplicateDelivery, Distinct
  <2>1. QED BY <1>10, <1>11 DEF BrowserInv, ResumeInv, NoDuplicateDelivery, Distinct
<1>18. SeenNeverComes'
  <2> SUFFICES ASSUME NEW a \in Browsers, conn[a] # NoSub, NEW m \in Range(seen'[a])
               PROVE  m \notin Unread(a)' /\ m \notin Owed(conn[a])'
    BY <1>2 DEF SeenNeverComes
  <2>1. PICK t \in Subs : t = conn[a]
    BY <1>4
  <2>2. /\ Unread(a)' = {Stream(t)[k] : k \in (read'[a] + 1)..Len(Stream(t))}
        /\ Owed(conn[a])' = Owed(t)
    BY <1>2, <1>3, <2>1 DEF Unread, Owed, Stream
  <2>3. CASE a # b
    <3>1. read'[a] = read[a] /\ m \in Range(seen[a])
      BY <1>1, <1>2, <1>4, <1>6, <1>11, <2>3
    <3>2. Unread(a)' = Unread(a)
      BY <2>1, <2>2, <3>1 DEF Unread
    <3>3. QED BY <2>1, <2>2, <3>1, <3>2 DEF BrowserInv, SeenNeverComes
  <2>4. CASE a = b
    <3>1. t = s /\ read'[a] = i
      BY <1>1, <1>2, <1>4, <1>6, <2>1, <2>4
    <3>2. Unread(a)' = {q[k] : k \in (i + 1)..Len(q)} /\ Owed(conn[a])' = Owed(s)
      BY <2>2, <3>1
    <3>3. read[b] \in Nat
      BY <1>4
    <3>4. ASSUME NEW k \in (i + 1)..Len(q) PROVE q[k] \in Unread(b) /\ q[k] # n
      <4>1. k \in (read[b] + 1)..Len(q) /\ k \in 1..Len(q) /\ k # i
        BY <1>1, <1>5, <1>8, <3>3
      <4>2. DOMAIN q = 1..Len(q)
        BY <1>5, LenProperties
      <4>3. q[k] # n
        BY <1>8, <4>1, <4>2 DEF Distinct, n
      <4>4. QED BY <1>1, <4>1, <4>3 DEF Unread
    <3>5. m = n \/ m \in Range(seen[b])
      BY <1>10, <1>11, <2>4
    <3>6. CASE m = n
      BY <1>9, <3>2, <3>4, <3>6
    <3>7. CASE m \in Range(seen[b])
      <4>1. m \notin Unread(b) /\ m \notin Owed(s)
        BY <1>1, <3>7 DEF BrowserInv, SeenNeverComes
      <4>2. QED BY <3>2, <3>4, <4>1
    <3>8. QED BY <3>5, <3>6, <3>7
  <2>5. QED BY <2>3, <2>4
<1>19. QED BY <1>13, <1>14, <1>15, <1>16, <1>17, <1>18 DEF BrowserInv, ResumeInv

\* What a connection takes with it when it closes.
LEMMA OvertakenAtClose ==
    ASSUME ServerInv, BrowserInv, NEW b \in Browsers, Break(b) \/ OnClose(b)
    PROVE  \/ conn' = conn /\ overtaken' = overtaken
           \/ /\ conn[b] \in Subs /\ conn[b] # NoSub
              /\ conn' = [conn EXCEPT ![b] = NoSub]
              /\ \E lost \in SUBSET (1..seq) :
                     /\ overtaken' = [overtaken EXCEPT ![b] = overtaken[b] \cup lost]
                     /\ lost = {n \in Unread(b) \cup Owed(conn[b]) :
                                   \E m \in Range(seen[b]) : m > n}
<1>1. CASE Break(b)
  BY <1>1 DEF Break, lossVars
<1>2. CASE OnClose(b)
  <2>1. PICK s \in Subs : s = conn[b] /\ s # NoSub
    BY <1>2 DEF OnClose, BrowserInv, ResumeInv, ReconnectTypeOK
  <2> DEFINE q == Stream(s)
  <2>2. q \in Seq(1..seq) /\ Owed(s) \subseteq 1..seq /\ read[b] \in Nat
    BY DeliveryTypes DEF ServerInv, HubInv, BrowserInv, ResumeInv, ReconnectTypeOK
  <2>3. Unread(b) = {q[i] : i \in (read[b] + 1)..Len(q)}
    BY <2>1 DEF Unread
  <2> HIDE DEF q
  <2>4. Len(q) \in Nat /\ \A i \in 1..Len(q) : q[i] \in 1..seq
    BY <2>2, LenProperties, ElementOfSeq
  <2>5. (read[b] + 1)..Len(q) \subseteq 1..Len(q)
    BY <2>2, <2>4
  <2>6. Unread(b) \subseteq 1..seq
    BY <2>3, <2>4, <2>5
  <2>7. {n \in Unread(b) \cup Owed(conn[b]) : \E m \in Range(seen[b]) : m > n} \in SUBSET (1..seq)
    BY <2>1, <2>2, <2>6
  <2>8. QED BY <1>2, <2>1, <2>7 DEF OnClose
<1>3. QED BY <1>1, <1>2

\* A connection that breaks or closes takes with it what was not read.
LEMMA CloseBrowsers ==
    ASSUME ServerInv, BrowserInv, NEW b \in Browsers, Break(b) \/ OnClose(b)
    PROVE  BrowserInv'
<1>1. /\ UNCHANGED <<vars, cursor, read, restarts, seen, agedOut, stale, buried, cutOff>>
      /\ conn' = conn \/ conn' = [conn EXCEPT ![b] = NoSub]
      /\ broken' = broken \/ (conn[b] # NoSub /\ broken' = broken \cup {conn[b]})
      /\ breaks' = breaks \/ (breaks < MaxBreaks /\ breaks' = breaks + 1)
  BY DEF Break, OnClose, lossVars
<1>2. /\ TypeOK
      /\ conn \in [Browsers -> Subs \cup {NoSub}]
      /\ breaks \in 0..MaxBreaks
  BY DEF BrowserInv, ResumeInv, ReconnectTypeOK
<1>3. UNCHANGED <<seq, closed, joined, chan, got, sending, targets, dropping>>
  BY <1>1 DEF vars, hubVars, chanVars, pubVars, histVars
<1>4. TypeOK'
  BY <1>1, <1>2 DEF TypeOK, vars, hubVars, chanVars, pubVars, stopVars, histVars
<1>5. Cursors' /\ SeenIsPast' /\ NoDuplicateDelivery'
  BY <1>1, <1>3 DEF BrowserInv, Cursors, SeenIsPast, ResumeInv, NoDuplicateDelivery
<1>6. OneBrowserEach'
  BY <1>1, <1>2, <1>3 DEF BrowserInv, OneBrowserEach
<1>7. ReconnectTypeOK'
  <2>1. breaks' \in 0..MaxBreaks
    BY <1>1, <1>2, BreaksAssumption
  <2>2. conn' \in [Browsers -> Subs \cup {NoSub}]
    BY <1>1, <1>2
  <2>3. broken' \subseteq joined'
    BY <1>1, <1>3 DEF BrowserInv, OneBrowserEach, ResumeInv, ReconnectTypeOK
  <2>4. overtaken' \in [Browsers -> SUBSET (1..seq)]
    <3>1. overtaken \in [Browsers -> SUBSET (1..seq)]
      BY DEF BrowserInv, ResumeInv, ReconnectTypeOK
    <3>2. \/ overtaken' = overtaken
          \/ \E lost \in SUBSET (1..seq) :
                 overtaken' = [overtaken EXCEPT ![b] = overtaken[b] \cup lost]
      BY OvertakenAtClose
    <3>3. ASSUME NEW lost \in SUBSET (1..seq),
                 overtaken' = [overtaken EXCEPT ![b] = overtaken[b] \cup lost]
          PROVE  overtaken' \in [Browsers -> SUBSET (1..seq)]
      BY <3>1, <3>3
    <3>4. QED BY <3>1, <3>2, <3>3
  <2>5. QED BY <1>1, <1>3, <1>4, <2>1, <2>2, <2>3, <2>4 DEF BrowserInv, ResumeInv, ReconnectTypeOK
<1>8. SeenNeverComes'
  <2> SUFFICES ASSUME NEW a \in Browsers, conn'[a] # NoSub
               PROVE  (Unread(a)' \cup Owed(conn[a])') \cap Range(seen[a]) = {}
    BY <1>1 DEF SeenNeverComes
  <2>1. conn'[a] = conn[a]
    BY <1>1, <1>2
  <2>2. Unread(a)' = Unread(a) /\ Owed(conn[a])' = Owed(conn[a])
    BY <1>1, <1>3, <2>1 DEF Unread, Owed, Stream
  <2>3. QED BY <2>1, <2>2 DEF BrowserInv, SeenNeverComes
<1>9. QED BY <1>5, <1>6, <1>7, <1>8 DEF BrowserInv, ResumeInv

\* A new process has sent nothing, and nobody is connected to it.
LEMMA RestartBrowsers ==
    ASSUME ServerInv', BrowserInv, Restart
    PROVE  BrowserInv'
<1>1. /\ seq' = 0 /\ closed' = FALSE /\ joined' = {}
      /\ conn' = [b \in Browsers |-> NoSub]
      /\ read' = [b \in Browsers |-> 0]
      /\ broken' = {}
      /\ seen' = [b \in Browsers |-> <<>>]
      /\ agedOut' = [b \in Browsers |-> {}]
      /\ buried' = [b \in Browsers |-> {}]
      /\ cutOff' = [b \in Browsers |-> {}]
      /\ overtaken' = [b \in Browsers |-> {}]
      /\ stale' = cursor
      /\ restarts < MaxRestarts /\ restarts' = restarts + 1
      /\ UNCHANGED <<cursor, breaks>>
  BY DEF Restart
<1>2. /\ cursor \in [Browsers -> Nat]
      /\ cursor \in [Browsers -> 0..MaxSeq]
      /\ restarts \in 0..MaxRestarts
  BY SizesAssumption DEF BrowserInv, Cursors, ResumeInv, ReconnectTypeOK
<1>3. \A b \in Browsers : seen'[b] = <<>> /\ Range(seen'[b]) = {} /\ DOMAIN seen'[b] = {}
  <2>1. Range(<<>>) = {}
    BY EmptySeq DEF Range
  <2>2. QED BY <1>1, <2>1
<1>4. Cursors' /\ OneBrowserEach' /\ SeenIsPast' /\ SeenNeverComes' /\ NoDuplicateDelivery'
  BY <1>1, <1>2, <1>3, SizesAssumption
  DEF Cursors, OneBrowserEach, SeenIsPast, SeenNeverComes, NoDuplicateDelivery
<1>5. ReconnectTypeOK'
  <2>1. TypeOK'
    BY DEF ServerInv, HubInv, CoreInv
  <2>2. seen' \in [Browsers -> Seq(1..0)]
    BY <1>1, EmptySeq
  <2>3. restarts' \in 0..MaxRestarts
    BY <1>1, <1>2, BreaksAssumption
  <2>4. QED BY <1>1, <1>2, <2>1, <2>2, <2>3 DEF BrowserInv, ResumeInv, ReconnectTypeOK
<1>6. QED BY <1>4, <1>5 DEF BrowserInv, ResumeInv

\* A drop gives up one message of the publisher, and that of a browser's connection.
LEMMA OvertakenAtDrop ==
    ASSUME ServerInv, BrowserInv, NEW p \in Publishers, Publish(p)
    PROVE  /\ overtaken' \in [Browsers -> SUBSET (1..seq)]
           /\ \A b \in Browsers : overtaken[b] \subseteq overtaken'[b]
           /\ \A b \in Browsers : \A n \in overtaken'[b] \ overtaken[b] :
                  /\ dropping[p] \in Subs /\ conn[b] = dropping[p] /\ n = sending[p]
                  /\ \E m \in Range(Stream(dropping[p])) : m > n
           /\ \A b \in Browsers :
                  /\ dropping[p] # NoSub /\ conn[b] = dropping[p]
                  /\ \E m \in Range(Stream(dropping[p])) : m > sending[p]
                  => sending[p] \in overtaken'[b]
<1>1. /\ overtaken \in [Browsers -> SUBSET (1..seq)]
      /\ dropping[p] \in Subs \cup {NoSub}
      /\ sending[p] \in 0..seq
      /\ dropping[p] # NoSub => sending[p] # 0
      /\ seq \in Nat
  BY DEF ServerInv, HubInv, CoreInv, TypeOK, HoldsItsMessage, Busy,
         BrowserInv, ResumeInv, ReconnectTypeOK
<1>2. overtaken' = [b \in Browsers |->
          overtaken[b] \cup (IF /\ dropping[p] # NoSub /\ conn[b] = dropping[p]
                               /\ \E m \in Range(Stream(conn[b])) : m > sending[p]
                            THEN {sending[p]} ELSE {})]
  BY DEF Publish
<1>3. dropping[p] # NoSub => sending[p] \in 1..seq
  BY <1>1
<1>4. \A b \in Browsers : conn[b] = dropping[p] => Range(Stream(conn[b])) = Range(Stream(dropping[p]))
  OBVIOUS
<1>5. QED BY <1>1, <1>2, <1>3, <1>4

LEMMA BrowserStep ==
    ServerInv /\ ServerInv' /\ BrowserInv /\ [ReconnectNext]_reconnectVars => BrowserInv'
<1> SUFFICES ASSUME ServerInv, ServerInv', BrowserInv, [ReconnectNext]_reconnectVars
             PROVE  BrowserInv'
  OBVIOUS
<1>0. overtaken \in [Browsers -> SUBSET (1..seq)]
  BY DEF BrowserInv, ResumeInv, ReconnectTypeOK
<1>1. ASSUME NEW p \in Publishers,
             (Broadcast(p) /\ UNCHANGED <<clientVars, lossVars>>) \/ Publish(p)
      PROVE  BrowserInv'
  <2>1. CASE Broadcast(p) /\ UNCHANGED <<clientVars, lossVars>>
    BY <1>0, <2>1, ServerStepBrowsers DEF lossVars
  <2>2. CASE Publish(p)
    <3>1. PublisherStep(p) /\ UNCHANGED <<clientVars, cutOff>>
      BY <2>2 DEF Publish
    <3>2. overtaken' \in [Browsers -> SUBSET (1..seq)]
      BY <2>2, OvertakenAtDrop
    <3>3. QED BY <3>1, <3>2, ServerStepBrowsers
  <2>3. QED BY <1>1, <2>1, <2>2
<1>2. ASSUME NEW s \in Subs,
             (Receive(s) /\ UNCHANGED <<clientVars, lossVars>>) \/ ServeReturns(s)
      PROVE  BrowserInv'
  BY <1>0, <1>2, ServerStepBrowsers DEF ServeReturns, lossVars
<1>3. ASSUME NEW b \in Browsers, NEW s \in Subs, Connect(b, s) PROVE BrowserInv'
  BY <1>3, ConnectBrowsers
<1>4. ASSUME NEW b \in Browsers, OnMessage(b) PROVE BrowserInv'
  BY <1>4, OnMessageBrowsers
<1>5. ASSUME NEW b \in Browsers, Break(b) \/ OnClose(b) PROVE BrowserInv'
  BY <1>5, CloseBrowsers
<1>6. CASE Restart
  BY <1>6, RestartBrowsers
<1>7. CASE UNCHANGED reconnectVars
  <2>1. UNCHANGED <<seq, closed, joined, chan, got, sending, targets, dropping, conn, cursor,
                    read, broken, breaks, restarts, seen, agedOut, stale, buried,
                    cutOff, overtaken>>
    BY <1>7 DEF reconnectVars, clientVars, lossVars, vars, hubVars, chanVars, pubVars, histVars
  <2>2. TypeOK'
    BY DEF ServerInv, HubInv, CoreInv
  <2>3. Cursors' /\ OneBrowserEach' /\ SeenIsPast' /\ NoDuplicateDelivery' /\ ReconnectTypeOK'
    <3>1. Cursors' /\ OneBrowserEach' /\ SeenIsPast'
      BY <2>1 DEF BrowserInv, Cursors, OneBrowserEach, SeenIsPast
    <3>2. NoDuplicateDelivery'
      BY <2>1 DEF BrowserInv, ResumeInv, NoDuplicateDelivery
    <3>3. ReconnectTypeOK'
      BY <2>1, <2>2 DEF BrowserInv, ResumeInv, ReconnectTypeOK
    <3> QED BY <3>1, <3>2, <3>3
  <2>4. SeenNeverComes'
    <3>1. ASSUME NEW b \in Browsers, conn[b] # NoSub
          PROVE  (Unread(b)' \cup Owed(conn[b])') \cap Range(seen'[b]) = {}
      <4>1. Unread(b)' = Unread(b)
        BY <2>1 DEF Unread, Stream
      <4>2. Owed(conn[b])' = Owed(conn[b]) /\ seen' = seen
        BY <2>1 DEF Owed
      <4> QED BY <3>1, <4>1, <4>2 DEF BrowserInv, SeenNeverComes
    <3>2. conn' = conn
      BY <2>1
    <3> QED BY ONLY <3>1, <3>2 DEF SeenNeverComes
  <2>5. QED BY <2>3, <2>4 DEF BrowserInv, ResumeInv
<1>8. QED BY <1>1, <1>2, <1>3, <1>4, <1>5, <1>6, <1>7 DEF ReconnectNext, Serving

LEMMA ReconnectInvariant == ReconnectSpec => [](ServerInv /\ BrowserInv)
<1>1. ReconnectInit => ServerInv /\ BrowserInv
  BY InitCoreInv, InitOwnership, InitDelivery, InitBrowsers DEF ReconnectInit, ServerInv, HubInv
<1>2. (ServerInv /\ BrowserInv) /\ [ReconnectNext]_reconnectVars => (ServerInv /\ BrowserInv)'
  BY ServerStep, BrowserStep DEF BrowserInv
<1>3. QED BY <1>1, <1>2, PTL DEF ReconnectSpec

\* No browser handles a message twice, for any number of browsers and publishers,
\* however often connections break, subscribers are dropped and the server restarts:
\* the cursor a browser resumes with is beyond all it has seen.
THEOREM ResumeCorrect == ReconnectSpec => []ResumeInv
<1>1. BrowserInv => ResumeInv
  BY DEF BrowserInv
<1>2. QED BY <1>1, ReconnectInvariant, PTL

\* The promises of Hub about delivery survive a restart: they hold of the messages and
\* the subscribers of the present process.
THEOREM RestartKeepsPromises == ReconnectSpec => [](AtMostOnce /\ PublisherOrder /\ NoSilentGap)
<1>1. ServerInv => AtMostOnce /\ PublisherOrder /\ NoSilentGap
  BY DEF ServerInv, DeliveryInv
<1>2. QED BY <1>1, ReconnectInvariant, PTL

-----------------------------------------------------------------------------
(* What a browser misses, and why *)

\* What b handled, and what explains that it did not.
Settled(b) ==
    Range(seen[b]) \cup agedOut[b] \cup buried[b] \cup cutOff[b] \cup overtaken[b] \cup aborted

\* Only what b handled moves its cursor.
CursorInv(b) == cursor[b] = stale[b] \/ cursor[b] \in Range(seen[b])

\* Between two connections: below the cursor is what is settled, and what the new
\* server published under the numbers of the old.
ApartInv(b) ==
    conn[b] = NoSub =>
        \A m \in 1..seq : m <= cursor[b] => m \in Settled(b) \/ m <= stale[b]

\* Over a connection: the past is settled or comes with the backfill, below what came
\* since is what came, is owed or is settled, the cursor was moved by nothing else, and
\* what was handled over an earlier connection is below all of it.
ConnectedInv(b) ==
    conn[b] # NoSub =>
        /\ \A m \in 1..liveFrom[conn[b]] : m \in Settled(b) \cup Range(Stream(conn[b]))
        /\ read[b] <= Len(Stream(conn[b]))
        /\ Range(Stream(conn[b])) \subseteq Range(seen[b]) \cup Unread(b)
        /\ \A n \in Range(Stream(conn[b])) : \A m \in (liveFrom[conn[b]] + 1)..n :
               m \in Range(Stream(conn[b])) \cup Owed(conn[b]) \cup Settled(b)
        /\ \/ cursor[b] = stale[b]
           \/ cursor[b] <= liveFrom[conn[b]]
           \/ cursor[b] \in Range(Stream(conn[b]))
        /\ \A m \in Range(seen[b]) :
               \/ m \in Range(Stream(conn[b]))
               \/ \A n \in Range(Stream(conn[b])) \cup Owed(conn[b]) : n > m

\* A message is overtaken by that of another publisher.
OvertakenInv(b) == \A n \in overtaken[b] : \E m \in (n + 1)..seq : author[m] # author[n]

GapInv == \A b \in Browsers : CursorInv(b) /\ ApartInv(b) /\ ConnectedInv(b) /\ OvertakenInv(b)

\* What the invariant says of a browser explains all it misses.
LEMMA GapInvSuffices == ServerInv /\ BrowserInv /\ GapInv => GapsAreExplained
<1> SUFFICES ASSUME ServerInv, BrowserInv, GapInv, NEW b \in Browsers
             PROVE  /\ \A n \in 1..seq : n <= cursor[b] =>
                           \/ n \in Settled(b) \cup Coming(b)
                           \/ conn[b] \notin subs /\ n <= stale[b]
                    /\ OvertakenInv(b)
  BY DEF GapsAreExplained, Settled, OvertakenInv
<1> SUFFICES ASSUME NEW n \in 1..seq, n <= cursor[b]
             PROVE  \/ n \in Settled(b) \cup Coming(b)
                    \/ conn[b] \notin subs /\ n <= stale[b]
  BY DEF GapInv
<1>1. seq \in Nat /\ subs \subseteq Subs /\ n \in Nat /\ liveFrom \in [Subs -> 0..seq]
  <2>1. seq \in Nat /\ subs \subseteq Subs /\ liveFrom \in [Subs -> 0..seq]
    BY DEF ServerInv, HubInv, CoreInv, TypeOK
  <2>2. QED BY <2>1
<1>2. CASE conn[b] = NoSub
  BY <1>1, <1>2, NoSubAssumption DEF GapInv, ApartInv
<1>3. CASE conn[b] # NoSub
  <2>1. PICK s \in Subs : s = conn[b] /\ s \in joined
    BY <1>3 DEF BrowserInv, OneBrowserEach, ResumeInv, ReconnectTypeOK
  <2>2. Coming(b) = Range(Stream(s)) \cup Owed(s)
    BY <1>3, <2>1 DEF Coming
  <2>3. liveFrom[s] \in Nat
    BY <1>1
  <2>4. CASE n <= liveFrom[s]
    <3>1. n \in 1..liveFrom[s]
      BY <1>1, <2>3, <2>4
    <3>2. n \in Settled(b) \cup Range(Stream(s))
      BY <1>3, <2>1, <3>1 DEF GapInv, ConnectedInv
    <3>3. QED BY <2>2, <3>2
  <2>5. CASE n > liveFrom[s] /\ s \in subs
    <3>1. n \in (liveFrom[s] + 1)..seq
      BY <1>1, <2>3, <2>5
    <3>2. n \in Range(Stream(s)) \cup Owed(s) \cup aborted
      BY <2>5, <3>1 DEF ServerInv, DeliveryInv, NoSilentGap
    <3>3. QED BY <2>2, <3>2 DEF Settled
  <2>6. CASE n > liveFrom[s] /\ s \notin subs
    <3>1. \/ cursor[b] = stale[b]
          \/ cursor[b] <= liveFrom[s]
          \/ cursor[b] \in Range(Stream(s))
      BY <1>3, <2>1 DEF GapInv, ConnectedInv
    <3>2. cursor[b] \in Nat
      BY SizesAssumption DEF BrowserInv, Cursors
    <3>3. CASE cursor[b] = stale[b]
      BY <2>1, <2>6, <3>3
    <3>4. CASE cursor[b] <= liveFrom[s]
      BY <1>1, <2>3, <2>6, <3>2, <3>4
    <3>5. CASE cursor[b] \in Range(Stream(s))
      <4>1. n \in (liveFrom[s] + 1)..cursor[b]
        BY <1>1, <2>3, <2>6, <3>2
      <4>2. n \in Range(Stream(s)) \cup Owed(s) \cup Settled(b)
        BY <1>3, <2>1, <3>5, <4>1 DEF GapInv, ConnectedInv
      <4>3. QED BY <2>2, <4>2
    <3>6. QED BY <3>1, <3>3, <3>4, <3>5
  <2>7. QED BY <1>1, <2>3, <2>4, <2>5, <2>6
<1>4. QED BY <1>2, <1>3

LEMMA InitGap == ReconnectInit => GapInv
<1> SUFFICES ASSUME ReconnectInit PROVE GapInv
  OBVIOUS
<1>1. /\ seq = 0
      /\ \A b \in Browsers : /\ conn[b] = NoSub /\ cursor[b] = 0 /\ stale[b] = 0
                             /\ overtaken[b] = {}
  BY DEF ReconnectInit, Init
<1>2. QED BY <1>1 DEF GapInv, CursorInv, ApartInv, ConnectedInv, OvertakenInv

\* Everything retained above the cursor is in the backfill or has no room there.
LEMMA BackfillOrTooMany ==
    ASSUME CoreInv, NEW c \in Nat
    PROVE  \A m \in Range(backlog) : m > c => m \in Range(Backfill(c)) \cup TooMany(c)
<1> DEFINE k == Skipped(c)
           X == {j \in 1..Len(backlog) : backlog[j] <= c}
<1>1. /\ seq \in Nat
      /\ Len(backlog) \in Nat
      /\ DOMAIN backlog = 1..Len(backlog)
      /\ \A j \in 1..Len(backlog) : backlog[j] = seq - Len(backlog) + j /\ backlog[j] \in 1..seq
  <2>1. backlog \in Seq(1..seq) /\ seq \in Nat
    BY DEF CoreInv, TypeOK
  <2>2. Len(backlog) \in Nat /\ DOMAIN backlog = 1..Len(backlog)
    BY <2>1, LenProperties
  <2>3. \A j \in 1..Len(backlog) : backlog[j] \in 1..seq
    BY <2>1, ElementOfSeq
  <2>4. QED BY <2>1, <2>2, <2>3 DEF CoreInv, BacklogIsNewestSuffix
<1>2. /\ k \in 0..Len(backlog)
      /\ Backfill(c) \in Seq(1..seq)
      /\ Len(Backfill(c)) = IF Len(backlog) - k > ChanCap THEN ChanCap ELSE Len(backlog) - k
      /\ \A i \in 1..Len(Backfill(c)) : Backfill(c)[i] = backlog[k + i]
  BY BackfillProperties DEF CoreInv, TypeOK
<1>3. k = Cardinality(X)
  BY DEF Skipped
<1> HIDE DEF k
<1>0. /\ k \in Nat /\ k <= Len(backlog)
      /\ ChanCap \in Nat /\ ChanCap >= 1
  <2>1. k \in 0..Len(backlog) /\ Len(backlog) \in Nat
    BY <1>1, <1>2
  <2>2. k \in Nat /\ k <= Len(backlog)
    BY ONLY <2>1
  <2>3. QED BY <2>2, SizesAssumption
<1>4. ASSUME NEW j \in 1..Len(backlog), backlog[j] > c
      PROVE  j > k
  <2> SUFFICES ASSUME j <= k PROVE FALSE
    <3>1. j \in Nat
      BY <1>1
    <3>2. QED BY <1>0, <3>1
  <2>1. X \subseteq 1..(j - 1)
    BY <1>1, <1>4
  <2>2. j - 1 \in Nat
    BY <1>1
  <2>3. IsFiniteSet(1..(j - 1)) /\ Cardinality(1..(j - 1)) = j - 1
    <3>1. PICK l \in Nat : l = j - 1
      BY <2>2
    <3>2. IsFiniteSet(1..l) /\ Cardinality(1..l) = l
      BY FS_Interval
    <3>3. QED BY <3>1, <3>2
  <2>4. Cardinality(X) <= j - 1
    BY <2>1, <2>3, FS_Subset
  <2>5. QED BY <1>1, <1>2, <1>3, <2>4
<1> SUFFICES ASSUME NEW j \in 1..Len(backlog), backlog[j] > c
             PROVE  backlog[j] \in Range(Backfill(c)) \cup TooMany(c)
  BY <1>1 DEF Range
<1>5. j > k
  BY <1>4
<1>6. j \in Nat /\ j >= 1 /\ j <= Len(backlog)
  <2>1. Len(backlog) \in Nat
    BY <1>1
  <2>2. QED BY ONLY <2>1, j \in 1..Len(backlog)
<1> DEFINE r == Len(Backfill(c))
           l == Len(backlog)
<1>10. l \in Nat /\ r = (IF l - k > ChanCap THEN ChanCap ELSE l - k)
  BY <1>1, <1>2
<1> HIDE DEF r, l
<1>7. CASE j - k <= ChanCap
  <2>1. j - k \in 1..Len(Backfill(c)) /\ k + (j - k) = j
    <3>1. j <= l /\ k <= l
      BY <1>0, <1>6 DEF l
    <3>2. j - k \in 1..r /\ k + (j - k) = j
      BY ONLY <1>0, <1>5, <1>6, <1>7, <1>10, <3>1
    <3>3. QED BY <3>2 DEF r
  <2>2. Backfill(c)[j - k] = backlog[j]
    BY <1>2, <2>1
  <2>3. DOMAIN Backfill(c) = 1..Len(Backfill(c))
    BY <1>2, LenProperties
  <2>4. QED BY <2>1, <2>2, <2>3 DEF Range
<1>8. CASE j - k > ChanCap
  <2>1. 1 \in 1..Len(Backfill(c)) /\ k + 1 \in 1..Len(backlog)
    <3>1. j <= l /\ k <= l
      BY <1>0, <1>6 DEF l
    <3>2. 1 \in 1..r /\ k + 1 \in 1..l
      BY ONLY <1>0, <1>5, <1>6, <1>8, <1>10, <3>1
    <3>3. QED BY <3>2 DEF r, l
  <2>2. Backfill(c)[1] > c /\ Backfill(c)[1] = backlog[k + 1]
    BY <1>2, <2>1, BackfillIsAbove
  <2>3. backlog[k + 1] = seq - Len(backlog) + (k + 1) /\ backlog[j] = seq - Len(backlog) + j
    BY <1>1, <2>1
  <2>4. seq - Len(backlog) + (k + 1) > c
    BY <2>2, <2>3
  <2>5. seq \in Nat /\ Len(backlog) \in Nat /\ backlog[j] \in 1..seq
    BY <1>1
  <2>6. backlog[j] > c + ChanCap /\ backlog[j] > seq - Len(backlog) + ChanCap
    BY ONLY <1>0, <1>6, <1>8, <2>3, <2>4, <2>5, c \in Nat
  <2>7. QED BY <2>5, <2>6 DEF TooMany
<1>9. j - k <= ChanCap \/ j - k > ChanCap
  BY ONLY <1>0, <1>6
<1>11. QED BY <1>7, <1>8, <1>9

\* A subscription that is gone: its stream is at its end, and what a publisher still
\* held for it is aborted, or given up with the drop.
LEMMA GoneStream ==
    ASSUME ServerInv, ServerInv', ~closed, NEW t \in joined, t \in Subs, t \notin subs',
           \/ \E p \in Publishers : Broadcast(p) \/ PublisherStep(p)
           \/ \E s \in Subs : Receive(s) \/ Leave(s)
    PROVE  /\ Stream(t)' = Stream(t)
           /\ \A m \in Owed(t) \ Owed(t)' :
                  \/ m \in aborted'
                  \/ \E p \in Publishers : /\ dropping[p] = t /\ m = sending[p]
                                           /\ DropSlow(p)
<1> USE DEF ServerInv, HubInv
<1>1. ASSUME NEW p \in Publishers, Broadcast(p)
      PROVE  Stream(t)' = Stream(t) /\ Owed(t) \subseteq Owed(t)'
  BY <1>1, BroadcastEffect
<1>2. ASSUME NEW p \in Publishers, NEW s \in Subs, Deliver(p, s)
      PROVE  Stream(t)' = Stream(t) /\ Owed(t) \subseteq Owed(t)'
  <2>1. s \in joined /\ s \notin chClosed
    BY <1>2 DEF Deliver, Visit, DeliveryInv, StrangersHaveNothing
  <2>2. s \in subs
    BY <2>1 DEF OwnershipInv, CloseOwnership
  <2>3. subs' = subs
    BY <1>2 DEF Deliver, hubVars
  <2>4. QED BY <1>2, <2>2, <2>3, DeliverEffect
<1>3. ASSUME NEW p \in Publishers, NEW s \in Subs, FindFull(p, s)
      PROVE  Stream(t)' = Stream(t) /\ Owed(t)' = Owed(t)
  BY <1>3, FindFullEffect
<1>4. ASSUME NEW p \in Publishers, NEW s \in Subs, SendOnClosed(p, s)
      PROVE  Stream(t)' = Stream(t) /\ \A m \in Owed(t) \ Owed(t)' : m \in aborted'
  <2>1. Stream(t)' = Stream(t)
    BY <1>4, SendOnClosedEffect
  <2>2. CASE p \in Handlers
    <3>1. Owed(t)' = Owed(t) \ {sending[p]}
      BY <1>4, <2>2, SendOnClosedEffect
    <3>2. sending[p] \in aborted'
      BY <1>4, <2>2 DEF SendOnClosed
    <3>3. QED BY <2>1, <3>1, <3>2
  <2>3. CASE p \notin Handlers
    BY <1>4, <2>1, <2>3, SendOnClosedEffect
  <2>4. QED BY <2>2, <2>3
<1>5. ASSUME NEW p \in Publishers, DropSlow(p)
      PROVE  /\ Stream(t)' = Stream(t)
             /\ \A m \in Owed(t) \ Owed(t)' : dropping[p] = t /\ m = sending[p]
  <2>1. Stream(t)' = Stream(t) /\ (t # dropping[p] => Owed(t)' = Owed(t))
    BY <1>5, DropSlowEffect
  <2>2. ASSUME NEW m \in Owed(t), m \notin Owed(t)' PROVE m = sending[p]
    <3>1. PICK q \in Publishers : (t \in targets[q] \/ dropping[q] = t) /\ m = sending[q]
      BY <2>2, OwedMeans
    <3>2. /\ UNCHANGED <<targets, sending>>
          /\ dropping' = [dropping EXCEPT ![p] = NoSub]
          /\ dropping \in [Publishers -> Subs \cup {NoSub}]
      BY <1>5 DEF DropSlow, CoreInv, TypeOK
    <3>3. CASE q # p
      <4>1. (t \in targets'[q] \/ dropping'[q] = t) /\ m = sending'[q]
        BY <3>1, <3>2, <3>3
      <4>2. m \in Owed(t)'
        BY <4>1 DEF Owed
      <4>3. QED BY <2>2, <4>2
    <3>4. QED BY <3>1, <3>3
  <2>3. QED BY <2>1, <2>2
<1>6. ASSUME NEW s \in Subs, Leave(s) PROVE Stream(t)' = Stream(t) /\ Owed(t)' = Owed(t)
  BY <1>6 DEF Leave, Unsubscribe, pubVars, histVars, Stream, Owed
<1>7. ASSUME NEW s \in Subs, Receive(s) PROVE Stream(t)' = Stream(t) /\ Owed(t)' = Owed(t)
  BY <1>7, ReceiveEffect
<1>8. QED BY <1>1, <1>2, <1>3, <1>4, <1>5, <1>6, <1>7 DEF PublisherStep

\* The counters and histories in a step of the server.
LEMMA ServerCounts ==
    ASSUME ServerInv, ServerInv',
           \/ \E p \in Publishers : Broadcast(p) \/ PublisherStep(p)
           \/ \E s \in Subs : Receive(s) \/ Leave(s)
    PROVE  /\ seq \in Nat /\ seq' \in Nat /\ (seq' = seq \/ seq' = seq + 1)
           /\ UNCHANGED <<joined, liveFrom>>
           /\ aborted \subseteq aborted'
           /\ \A m \in 1..seq : author'[m] = author[m]
<1>1. ASSUME NEW p \in Publishers, Broadcast(p)
      PROVE  /\ seq' = seq + 1
             /\ UNCHANGED <<joined, liveFrom, aborted>>
             /\ \A m \in 1..seq : author'[m] = author[m]
  <2>1. seq' = seq + 1 /\ author' = Append(author, p) /\ UNCHANGED <<joined, liveFrom, aborted>>
    BY <1>1 DEF Broadcast
  <2>2. author \in Seq(Publishers) /\ Len(author) = seq
    <3>1. seq \in Nat /\ author \in [1..seq -> Publishers]
      BY DEF ServerInv, HubInv, CoreInv, TypeOK
    <3>2. QED BY <3>1, SeqDef, LenProperties
  <2>3. QED BY <2>1, <2>2, AppendProperties
<1>2. ASSUME NEW p \in Publishers, PublisherStep(p)
      PROVE  UNCHANGED <<seq, joined, liveFrom, author>> /\ aborted \subseteq aborted'
  BY <1>2 DEF PublisherStep, Deliver, FindFull, SendOnClosed, DropSlow, Unsubscribe,
              hubVars, histVars
<1>3. ASSUME NEW s \in Subs, Receive(s) \/ Leave(s)
      PROVE  UNCHANGED <<seq, joined, liveFrom, author, aborted>>
  BY <1>3 DEF Receive, Leave, Unsubscribe, hubVars, histVars
<1>4. seq \in Nat /\ seq' \in Nat
  BY DEF ServerInv, HubInv, CoreInv, TypeOK
<1>5. QED BY <1>1, <1>2, <1>3, <1>4

\* What streams carry are numbers in use, also after a step.
InUse == \A s \in Subs : Range(Stream(s)) \subseteq 1..seq

LEMMA StreamsInUse == CoreInv' => InUse'
<1>1. CoreInv => InUse
  BY DeliveryTypes DEF InUse
<1>2. QED BY <1>1, PTL

\* Streams grow by what was owed; what is settled stays settled.
LEMMA ConnectedStep ==
    ASSUME ServerInv, ServerInv', BrowserInv, UNCHANGED <<clientVars, cutOff>>,
           \/ \E p \in Publishers : Broadcast(p) \/ PublisherStep(p)
           \/ \E s \in Subs : Receive(s) \/ Leave(s),
           NEW b \in Browsers, conn[b] # NoSub, ConnectedInv(b),
           overtaken[b] \subseteq overtaken'[b],
           \A p \in Publishers :
               /\ DropSlow(p) /\ dropping[p] = conn[b]
               /\ \E m \in Range(Stream(dropping[p])) : m > sending[p]
               => sending[p] \in overtaken'[b]
    PROVE  ConnectedInv(b)'
<1>1. /\ seq \in Nat /\ seq' \in Nat /\ (seq' = seq \/ seq' = seq + 1)
      /\ UNCHANGED <<joined, liveFrom>>
      /\ aborted \subseteq aborted'
  BY ServerCounts
<1>2. UNCHANGED <<conn, cursor, read, broken, breaks, restarts, seen, agedOut, stale, buried, cutOff>>
  BY DEF clientVars
<1>3. /\ cursor \in [Browsers -> 0..MaxSeq]
      /\ read[b] \in Nat
      /\ conn \in [Browsers -> Subs \cup {NoSub}]
      /\ seen[b] \in Seq(1..seq)
      /\ liveFrom \in [Subs -> 0..seq]
      /\ joined \subseteq Subs
      /\ ~closed
  BY DEF ServerInv, HubInv, CoreInv, TypeOK, BrowserInv, Cursors, ResumeInv, ReconnectTypeOK
<1>4. Settled(b) \subseteq Settled(b)' /\ aborted' \subseteq Settled(b)'
      /\ overtaken'[b] \subseteq Settled(b)'
  BY <1>1, <1>2 DEF Settled
<1>5. PICK t \in Subs : t = conn[b] /\ t \in joined
  BY <1>3 DEF BrowserInv, OneBrowserEach
<1>6. /\ Len(Stream(t)) \in Nat /\ Len(Stream(t)') \in Nat
      /\ Len(Stream(t)) <= Len(Stream(t)')
      /\ DOMAIN Stream(t) = 1..Len(Stream(t))
      /\ DOMAIN Stream(t)' = 1..Len(Stream(t)')
      /\ \A i \in 1..Len(Stream(t)) : Stream(t)'[i] = Stream(t)[i]
      /\ \A i \in (Len(Stream(t)) + 1)..Len(Stream(t)') : Stream(t)'[i] \in Owed(t)
      /\ Owed(t)' \subseteq Owed(t) \cup (IF seq' = seq + 1 THEN {seq + 1} ELSE {})
  BY <1>3, <1>5, StreamGrows
<1>7. /\ \A m \in 1..liveFrom[t] : m \in Settled(b) \cup Range(Stream(t))
      /\ read[b] <= Len(Stream(t))
      /\ Range(Stream(t)) \subseteq Range(seen[b]) \cup Unread(b)
      /\ \A n \in Range(Stream(t)) : \A m \in (liveFrom[t] + 1)..n :
             m \in Range(Stream(t)) \cup Owed(t) \cup Settled(b)
      /\ \/ cursor[b] = stale[b]
         \/ cursor[b] <= liveFrom[t]
         \/ cursor[b] \in Range(Stream(t))
      /\ \A m \in Range(seen[b]) :
             \/ m \in Range(Stream(t))
             \/ \A n \in Range(Stream(t)) \cup Owed(t) : n > m
  BY <1>5 DEF ConnectedInv
<1> DEFINE q == Stream(t)
           r == Stream(t)'
           R == Range(r)
<1>8. /\ Unread(b) = {q[i] : i \in (read[b] + 1)..Len(q)}
      /\ Unread(b)' = {r[i] : i \in (read[b] + 1)..Len(r)}
      /\ Owed(conn[b])' = Owed(t)'
      /\ Stream(conn[b])' = r
      /\ Range(Stream(conn[b]))' = R
      /\ liveFrom'[conn'[b]] = liveFrom[t]
  BY <1>1, <1>2, <1>5 DEF Unread, Owed, Stream, Range
<1> HIDE DEF q, r
<1>9. /\ Len(q) \in Nat /\ Len(r) \in Nat /\ Len(q) <= Len(r)
      /\ DOMAIN q = 1..Len(q) /\ DOMAIN r = 1..Len(r)
      /\ \A i \in 1..Len(q) : r[i] = q[i]
      /\ \A i \in (Len(q) + 1)..Len(r) : r[i] \in Owed(t)
      /\ read[b] <= Len(q)
  BY <1>6, <1>7 DEF q, r
<1>10. Range(q) \subseteq R
  <2>1. \A i \in 1..Len(q) : i \in DOMAIN r /\ r[i] = q[i]
    BY <1>9
  <2>2. QED BY <1>9, <2>1 DEF Range
<1>11. R \subseteq Range(q) \cup Owed(t)
  <2> SUFFICES ASSUME NEW i \in 1..Len(r) PROVE r[i] \in Range(q) \cup Owed(t)
    BY <1>9 DEF Range
  <2>1. CASE i <= Len(q)
    <3>1. i \in DOMAIN q /\ r[i] = q[i]
      BY <1>9, <2>1
    <3>2. QED BY <3>1 DEF Range
  <2>2. CASE i > Len(q)
    BY <1>9, <2>2
  <2>3. QED BY <1>9, <2>1, <2>2
<1>12. R \subseteq Range(seen[b]) \cup Unread(b)'
  <2> SUFFICES ASSUME NEW i \in 1..Len(r)
               PROVE  r[i] \in Range(seen[b]) \cup Unread(b)'
    BY <1>9 DEF Range
  <2>1. CASE i \in (read[b] + 1)..Len(r)
    BY <1>8, <2>1
  <2>2. CASE i <= read[b]
    <3>1. i \in 1..Len(q) /\ r[i] = q[i]
      BY <1>3, <1>9, <2>2
    <3>2. q[i] \in Range(q)
      BY <1>9, <3>1 DEF Range
    <3>3. q[i] \in Range(seen[b]) \cup Unread(b)
      BY <1>7, <3>2 DEF q
    <3>4. Unread(b) \subseteq Unread(b)'
      <4>1. ASSUME NEW j \in (read[b] + 1)..Len(q)
            PROVE  j \in (read[b] + 1)..Len(r) /\ r[j] = q[j]
        BY <1>3, <1>9
      <4>2. QED BY <1>8, <4>1
    <3>5. QED BY <3>1, <3>3, <3>4
  <2>3. QED BY <1>3, <1>9, <2>1, <2>2
<1>13. ASSUME NEW n \in R, NEW m \in (liveFrom[t] + 1)..n
       PROVE  m \in R \cup Owed(t)' \cup Settled(b)'
  <2>1. R \subseteq 1..seq'
    <3>1. CoreInv'
      BY DEF ServerInv, HubInv
    <3>2. Range(Stream(t))' \subseteq 1..seq' /\ Range(Stream(t))' = Range(Stream(t)')
      BY <3>1, StreamsInUse DEF InUse, Range
    <3>3. QED BY <3>2 DEF R, r
  <2>2. n \in Nat /\ n <= seq' /\ liveFrom[t] \in Nat /\ m \in (liveFrom[t] + 1)..seq'
    BY <1>1, <1>3, <2>1
  <2>3. CASE t \in subs'
    <3>1. m \in (liveFrom'[t] + 1)..seq'
      BY <1>1, <2>2
    <3>2. m \in Range(Stream(t)') \cup Owed(t)' \cup aborted'
      <4>1. NoSilentGap'
        BY DEF ServerInv, DeliveryInv
      <4>2. QED BY ONLY <2>3, <3>1, <4>1 DEF NoSilentGap, Stream, Owed, Range
    <3>3. QED BY <1>4, <3>2 DEF r
  <2>4. CASE t \notin subs'
    <3>1. /\ r = q
          /\ \A l \in Owed(t) \ Owed(t)' :
                 \/ l \in aborted'
                 \/ \E p \in Publishers : dropping[p] = t /\ l = sending[p] /\ DropSlow(p)
      BY <1>3, <1>5, <2>4, GoneStream DEF q, r
    <3>2. n \in Range(q) /\ R = Range(q)
      BY <3>1
    <3>3. m \in Range(q) \cup Owed(t) \cup Settled(b)
      BY <1>7, <3>2 DEF q
    <3>4. ASSUME m \in Owed(t), m \notin Owed(t)' PROVE m \in Settled(b)'
      <4>1. CASE m \in aborted'
        BY <1>4, <4>1
      <4>2. ASSUME NEW p \in Publishers, dropping[p] = t, m = sending[p], DropSlow(p)
            PROVE  m \in Settled(b)'
        <5>1. m # n
          BY <3>2, <3>4 DEF ServerInv, DeliveryInv, AtMostOnce, q
        <5>2. n > m /\ n \in Range(Stream(dropping[p]))
          BY <2>2, <3>2, <4>2, <5>1 DEF q
        <5>3. sending[p] \in overtaken'[b]
          BY <1>5, <4>2, <5>2
        <5>4. QED BY <1>4, <4>2, <5>3
      <4>3. QED BY <3>1, <3>4, <4>1, <4>2
    <3>5. QED BY <1>4, <3>2, <3>3, <3>4
  <2>5. QED BY <2>3, <2>4
<1>14. ASSUME NEW m \in Range(seen[b])
       PROVE  m \in R \/ \A n \in R \cup Owed(t)' : n > m
  <2>1. CASE m \in Range(q)
    BY <1>10, <2>1
  <2>2. CASE \A n \in Range(q) \cup Owed(t) : n > m
    <3>1. m \in 1..seq
      BY <1>3, RangeOfSeq
    <3>2. \A n \in R \cup Owed(t)' : n \in Range(q) \cup Owed(t) \/ n = seq + 1
      BY <1>6, <1>11
    <3>3. seq + 1 > m
      BY <1>1, <3>1
    <3>4. QED BY <2>2, <3>2, <3>3
  <2>3. QED BY <1>7, <2>1, <2>2 DEF q
<1>15. read[b] <= Len(r)
  BY <1>3, <1>9
<1>16. \A m \in 1..liveFrom[t] : m \in Settled(b)' \cup R
  BY <1>4, <1>7, <1>10 DEF q
<1>17. \/ cursor[b] = stale[b]
       \/ cursor[b] <= liveFrom[t]
       \/ cursor[b] \in R
  BY <1>7, <1>10 DEF q
<1>18. Range(seen[b])' = Range(seen[b]) /\ cursor'[b] = cursor[b] /\ stale'[b] = stale[b]
       /\ read'[b] = read[b]
  BY <1>2
<1> HIDE DEF R
<1>19. QED BY <1>8, <1>12, <1>13, <1>14, <1>15, <1>16, <1>17, <1>18 DEF ConnectedInv

LEMMA ServerStepGap ==
    ASSUME ServerInv, ServerInv', BrowserInv, GapInv, UNCHANGED <<clientVars, cutOff>>,
           \/ \E p \in Publishers : \/ Broadcast(p) /\ UNCHANGED overtaken
                                    \/ Publish(p)
           \/ \E s \in Subs : (Receive(s) \/ Leave(s)) /\ UNCHANGED overtaken
    PROVE  GapInv'
<1>1. \/ \E p \in Publishers : Broadcast(p) \/ PublisherStep(p)
      \/ \E s \in Subs : Receive(s) \/ Leave(s)
  BY DEF Publish
<1>2. /\ seq \in Nat /\ seq' \in Nat /\ (seq' = seq \/ seq' = seq + 1)
      /\ aborted \subseteq aborted'
      /\ \A m \in 1..seq : author'[m] = author[m]
  BY <1>1, ServerCounts
<1>3. UNCHANGED <<conn, cursor, read, seen, agedOut, stale, buried, cutOff>>
  BY DEF clientVars
\* What the step adds to the overtaken messages.
<1>4. ASSUME NEW b \in Browsers
      PROVE  /\ overtaken[b] \subseteq overtaken'[b]
             /\ \A p \in Publishers :
                    /\ DropSlow(p) /\ dropping[p] = conn[b]
                    /\ \E m \in Range(Stream(dropping[p])) : m > sending[p]
                    => sending[p] \in overtaken'[b]
             /\ \A n \in overtaken'[b] \ overtaken[b] :
                    \E p \in Publishers : \E m \in Range(Stream(dropping[p])) :
                        /\ dropping[p] \in Subs /\ n = sending[p] /\ m > n
                        /\ UNCHANGED <<seq, author>>
  <2>1. ASSUME NEW p \in Publishers, DropSlow(p) PROVE dropping[p] # NoSub /\ dropping'[p] = NoSub
    BY <2>1 DEF DropSlow, ServerInv, HubInv, CoreInv, TypeOK
  <2>2. ASSUME UNCHANGED overtaken, UNCHANGED dropping
        PROVE  /\ overtaken[b] \subseteq overtaken'[b]
               /\ \A p \in Publishers : ~DropSlow(p)
               /\ \A n \in overtaken'[b] \ overtaken[b] : FALSE
    BY <2>1, <2>2
  <2>3. ASSUME NEW p \in Publishers, Broadcast(p), UNCHANGED overtaken
        PROVE  UNCHANGED dropping
    BY <2>3 DEF Broadcast
  <2>4. ASSUME NEW s \in Subs, Receive(s) \/ Leave(s), UNCHANGED overtaken
        PROVE  UNCHANGED dropping
    BY <2>4 DEF Receive, Leave, pubVars
  <2>5. ASSUME NEW p \in Publishers, Publish(p)
        PROVE  /\ overtaken[b] \subseteq overtaken'[b]
               /\ \A q \in Publishers :
                      /\ DropSlow(q) /\ dropping[q] = conn[b]
                      /\ \E m \in Range(Stream(dropping[q])) : m > sending[q]
                      => sending[q] \in overtaken'[b]
               /\ \A n \in overtaken'[b] \ overtaken[b] :
                      \E m \in Range(Stream(dropping[p])) :
                          /\ dropping[p] \in Subs /\ n = sending[p] /\ m > n
                          /\ UNCHANGED <<seq, author>>
    <3>1. UNCHANGED <<seq, author>>
      BY <2>5 DEF Publish, PublisherStep, Deliver, FindFull, SendOnClosed, DropSlow,
                  Unsubscribe, hubVars, histVars
    <3>2. ASSUME NEW q \in Publishers, DropSlow(q) PROVE q = p
      <4>1. dropping[q] # NoSub /\ dropping'[q] = NoSub
        BY <2>1, <3>2
      <4>2. dropping \in [Publishers -> Subs \cup {NoSub}]
        BY DEF ServerInv, HubInv, CoreInv, TypeOK
      <4>3. \A o \in Publishers : o # p => dropping'[o] = dropping[o]
        BY <2>5, <4>2 DEF Publish, PublisherStep, Deliver, FindFull, SendOnClosed, DropSlow
      <4>4. QED BY <4>1, <4>3
    <3>3. QED BY <2>1, <2>5, <3>1, <3>2, OvertakenAtDrop
  <2>6. QED BY <2>2, <2>3, <2>4, <2>5
<1>5. ASSUME NEW b \in Browsers PROVE CursorInv(b)'
  BY <1>3 DEF GapInv, CursorInv
<1>6. ASSUME NEW b \in Browsers PROVE ApartInv(b)'
  <2>1. Settled(b) \subseteq Settled(b)'
    BY <1>2, <1>3, <1>4 DEF Settled
  <2> SUFFICES ASSUME conn[b] = NoSub, NEW m \in 1..seq', m <= cursor[b]
               PROVE  m \in Settled(b)' \/ m <= stale[b]
    BY <1>3 DEF ApartInv
  <2>2. CASE m \in 1..seq
    BY <2>1, <2>2 DEF GapInv, ApartInv
  <2>3. CASE m \notin 1..seq
    <3>1. cursor[b] \in 0..seq \cup {stale[b]} /\ stale[b] \in Nat
      BY DEF BrowserInv, ResumeInv, ReconnectTypeOK
    <3>2. QED BY <1>2, <2>3, <3>1
  <2>4. QED BY <2>2, <2>3
<1>7. ASSUME NEW b \in Browsers PROVE ConnectedInv(b)'
  <2>1. CASE conn[b] # NoSub
    <3>1. ConnectedInv(b)
      BY DEF GapInv
    <3>2. QED BY <1>1, <1>4, <2>1, <3>1, ConnectedStep
  <2>2. CASE conn[b] = NoSub
    BY <1>3, <2>2 DEF ConnectedInv
  <2>3. QED BY <2>1, <2>2
<1>8. ASSUME NEW b \in Browsers PROVE OvertakenInv(b)'
  <2> SUFFICES ASSUME NEW n \in overtaken'[b]
               PROVE  \E m \in (n + 1)..seq' : author'[m] # author'[n]
    BY DEF OvertakenInv
  <2>1. CASE n \in overtaken[b]
    <3>1. n \in 1..seq
      BY <2>1 DEF BrowserInv, ResumeInv, ReconnectTypeOK
    <3>2. PICK m \in (n + 1)..seq : author[m] # author[n]
      BY <2>1 DEF GapInv, OvertakenInv
    <3>3. m \in (n + 1)..seq' /\ m \in 1..seq
      BY <1>2, <3>1
    <3>4. QED BY <1>2, <3>1, <3>2, <3>3
  <2>2. CASE n \notin overtaken[b]
    <3>1. PICK p \in Publishers : \E m \in Range(Stream(dropping[p])) :
              /\ dropping[p] \in Subs /\ n = sending[p] /\ m > n
              /\ UNCHANGED <<seq, author>>
      BY <1>4, <2>2
    <3>2. PICK m \in Range(Stream(dropping[p])) :
              /\ dropping[p] \in Subs /\ n = sending[p] /\ m > n
              /\ UNCHANGED <<seq, author>>
      BY <3>1
    <3>3. m \in 1..seq
      BY <3>2, DeliveryTypes DEF ServerInv, HubInv
    <3>4. sending[p] # 0 /\ author[sending[p]] = p /\ sending[p] \in 0..seq
      BY <3>2, NoSubAssumption DEF ServerInv, HubInv, CoreInv, TypeOK, HoldsItsMessage, Busy
    <3>5. author[m] # p
      <4>1. author[m] = p => m <= sending[p]
        BY <3>3 DEF ServerInv, DeliveryInv, SendsItsLast
      <4>2. QED BY <1>2, <3>2, <3>3, <3>4, <4>1
    <3>6. m \in (n + 1)..seq'
      BY <1>2, <3>2, <3>3, <3>4
    <3>7. QED BY <3>2, <3>4, <3>5, <3>6
  <2>3. QED BY <2>1, <2>2
<1>9. QED BY <1>5, <1>6, <1>7, <1>8 DEF GapInv

\* A browser that connects finds what it missed in the backfill, unless the backlog
\* has lost it, the channel has no room, or the cursor of an earlier server hides it.
LEMMA ConnectGap ==
    ASSUME ServerInv, BrowserInv, GapInv, NEW b \in Browsers, NEW s \in Subs, Connect(b, s)
    PROVE  GapInv'
<1>1. /\ conn[b] = NoSub
      /\ joined' = joined \cup {s}
      /\ liveFrom' = [liveFrom EXCEPT ![s] = seq]
      /\ conn' = [conn EXCEPT ![b] = s]
      /\ read' = [read EXCEPT ![b] = 0]
      /\ agedOut' = [agedOut EXCEPT ![b] = agedOut[b] \cup ((cursor[b] + 1)..seq \ Range(backlog))]
      /\ buried' = [buried EXCEPT ![b] =
             buried[b] \cup {n \in 1..seq : n <= stale[b] /\ n \notin Range(seen[b])}]
      /\ cutOff' = [cutOff EXCEPT ![b] = cutOff[b] \cup TooMany(cursor[b])]
      /\ UNCHANGED <<seq, author, aborted, cursor, seen, stale, overtaken>>
  BY DEF Connect, Subscribe
<1>2. /\ s \notin joined /\ s # NoSub
      /\ cursor[b] \in Nat
      /\ Stream(s)' = Backfill(cursor[b])
      /\ Backfill(cursor[b]) \in Seq(1..seq)
      /\ Owed(s)' = {}
      /\ \A r \in Subs \ {s} : Stream(r)' = Stream(r) /\ Owed(r)' = Owed(r)
  BY ConnectEffect
<1>3. /\ seq \in Nat
      /\ conn \in [Browsers -> Subs \cup {NoSub}]
      /\ read \in [Browsers -> Nat]
      /\ agedOut \in [Browsers -> SUBSET (1..seq)]
      /\ buried \in [Browsers -> SUBSET (1..seq)]
      /\ cutOff \in [Browsers -> SUBSET (1..seq)]
      /\ cursor[b] \in 0..seq \cup {stale[b]}
      /\ liveFrom \in [Subs -> 0..seq]
      /\ joined \subseteq Subs
  BY DEF ServerInv, HubInv, CoreInv, TypeOK, BrowserInv, ResumeInv, ReconnectTypeOK
<1>4. PICK c \in Nat : c = cursor[b]
  BY <1>2
<1> DEFINE q == Backfill(c)
<1>5. /\ q \in Seq(1..seq)
      /\ \A i \in 1..Len(q) : q[i] > c
      /\ \A m \in Range(backlog) : m > c => m \in Range(q) \cup TooMany(c)
  BY <1>2, <1>4, BackfillIsAbove, BackfillOrTooMany DEF ServerInv, HubInv
<1> HIDE DEF q
<1>6. /\ Len(q) \in Nat
      /\ DOMAIN q = 1..Len(q)
      /\ Range(q) \subseteq 1..seq
  BY <1>5, LenProperties, RangeOfSeq
<1>7. Stream(s)' = q
  BY <1>2, <1>4 DEF q
<1>8. ASSUME NEW a \in Browsers PROVE CursorInv(a)' /\ OvertakenInv(a)'
  BY <1>1 DEF GapInv, CursorInv, OvertakenInv
<1>9. ASSUME NEW a \in Browsers, a # b PROVE ApartInv(a)' /\ ConnectedInv(a)'
  <2>1. /\ conn'[a] = conn[a] /\ read'[a] = read[a] /\ cursor'[a] = cursor[a]
        /\ seen'[a] = seen[a] /\ stale'[a] = stale[a] /\ overtaken'[a] = overtaken[a]
        /\ agedOut'[a] = agedOut[a] /\ buried'[a] = buried[a] /\ cutOff'[a] = cutOff[a]
        /\ seq' = seq /\ aborted' = aborted
    BY <1>1, <1>3, <1>9
  <2>2. Settled(a)' = Settled(a)
    BY <2>1 DEF Settled
  <2>3. ApartInv(a)'
    BY <2>1, <2>2 DEF ApartInv, GapInv
  <2>4. CASE conn[a] = NoSub
    BY <2>1, <2>3, <2>4 DEF ConnectedInv
  <2>5. CASE conn[a] # NoSub
    <3>1. PICK t \in Subs : t = conn[a] /\ t # s
      BY <1>2, <1>3, <2>5 DEF BrowserInv, OneBrowserEach
    <3>2. /\ Stream(t)' = Stream(t) /\ Owed(t)' = Owed(t)
          /\ liveFrom'[t] = liveFrom[t]
      BY <1>1, <1>2, <1>3, <3>1
    <3>3. Range(Stream(t)') = Range(Stream(t))
      BY <3>2
    <3>4. /\ Stream(conn[a])' = Stream(t)' /\ Owed(conn[a])' = Owed(t)'
          /\ Range(Stream(conn[a]))' = Range(Stream(t)')
      BY <2>1, <3>1 DEF Stream, Owed, Range
    <3>5. Unread(a)' = Unread(a)
      BY <2>1, <3>1, <3>2, <3>4 DEF Unread
    <3>6. Range(seen[a])' = Range(seen[a])
      BY <2>1
    <3>7. QED BY <2>1, <2>2, <2>3, <3>1, <3>2, <3>3, <3>4, <3>5, <3>6 DEF ConnectedInv, GapInv
  <2>6. QED BY <2>3, <2>4, <2>5
<1>10. ConnectedInv(b)'
  <2>1. /\ conn'[b] = s /\ read'[b] = 0 /\ cursor'[b] = c /\ liveFrom'[s] = seq
        /\ seen'[b] = seen[b] /\ stale'[b] = stale[b] /\ seq' = seq
    BY <1>1, <1>3, <1>4
  <2>2. /\ agedOut'[b] = agedOut[b] \cup ((c + 1)..seq \ Range(backlog))
        /\ buried'[b] = buried[b] \cup {n \in 1..seq : n <= stale[b] /\ n \notin Range(seen[b])}
        /\ cutOff'[b] = cutOff[b] \cup TooMany(c)
        /\ aborted' = aborted /\ overtaken'[b] = overtaken[b]
    BY <1>1, <1>3, <1>4
  <2>3. /\ Stream(conn[b])' = q /\ Owed(conn[b])' = {}
        /\ Range(Stream(conn[b]))' = Range(q)
    BY <1>2, <1>7, <2>1 DEF Stream, Owed, Range
  <2>4. Unread(b)' = {q[i] : i \in 1..Len(q)}
    BY <1>6, <2>1, <2>3 DEF Unread
  <2>5. Settled(b)' = Range(seen[b]) \cup agedOut'[b] \cup buried'[b] \cup cutOff'[b]
                      \cup overtaken[b] \cup aborted
    BY <2>1, <2>2 DEF Settled
  <2>6. ASSUME NEW m \in 1..seq PROVE m \in Settled(b)' \cup Range(q)
    <3>1. CASE m <= c
      <4>1. m \in Settled(b) \/ m <= stale[b]
        BY <1>1, <1>4, <3>1 DEF GapInv, ApartInv
      <4>2. QED BY <2>2, <2>5, <4>1 DEF Settled
    <3>2. CASE m > c
      <4>1. m \in (c + 1)..seq
        BY <1>3, <3>2
      <4>2. QED BY <1>5, <2>2, <2>5, <3>2, <4>1
    <3>3. QED BY <1>3, <3>1, <3>2
  <2>7. Range(q) \subseteq Unread(b)'
    BY <1>6, <2>4 DEF Range
  <2>8. c = stale[b] \/ c <= seq
    BY <1>3, <1>4
  <2>9. 0 <= Len(q)
    BY <1>6
  <2>10. ASSUME NEW n \in Range(q), NEW m \in (seq + 1)..n PROVE FALSE
    BY <1>3, <1>6
  <2>11. ASSUME NEW m \in Range(seen[b]), NEW n \in Range(q) PROVE n > m
    <3>1. m \in 1..c
      BY <1>4 DEF BrowserInv, SeenIsPast
    <3>2. n > c /\ n \in 1..seq
      BY <1>5, <1>6 DEF Range
    <3>3. QED BY <1>3, <3>1, <3>2
  <2>12. Range(seen[b])' = Range(seen[b])
    BY <2>1
  <2>13. QED BY <2>1, <2>3, <2>6, <2>7, <2>8, <2>9, <2>10, <2>11, <2>12 DEF ConnectedInv
<1>11. ApartInv(b)'
  BY <1>1, <1>2, <1>3 DEF ApartInv
<1>12. QED BY <1>8, <1>9, <1>10, <1>11 DEF GapInv

\* What a browser handles is settled, and the only thing to move its cursor.
LEMMA OnMessageGap ==
    ASSUME ServerInv, BrowserInv, GapInv, NEW b \in Browsers, OnMessage(b)
    PROVE  GapInv'
<1>1. PICK s \in Subs : s = conn[b]
  BY DEF OnMessage, BrowserInv, ResumeInv, ReconnectTypeOK
<1>2. PICK i \in 1..Len(Stream(s)) :
           /\ s = conn[b] /\ s # NoSub
           /\ i = read[b] + 1
           /\ Stream(s)[i] \in 1..seq
           /\ cursor' = [cursor EXCEPT ![b] = IF Stream(s)[i] > cursor[b]
                                              THEN Stream(s)[i] ELSE cursor[b]]
           /\ seen' = [seen EXCEPT ![b] = Append(seen[b], Stream(s)[i])]
           /\ read' = [read EXCEPT ![b] = i]
  BY <1>1, OnMessageEffect
<1>3. UNCHANGED <<seq, author, joined, liveFrom, aborted, chan, got, sending, targets, dropping,
                  conn, agedOut, stale, buried, cutOff, overtaken>>
  BY DEF OnMessage, vars, hubVars, chanVars, pubVars, histVars, lossVars
<1>4. /\ seq \in Nat
      /\ cursor \in [Browsers -> 0..MaxSeq]
      /\ read \in [Browsers -> Nat]
      /\ seen \in [Browsers -> Seq(1..seq)]
      /\ cursor[b] \in Nat
  <2>1. /\ seq \in Nat
        /\ cursor \in [Browsers -> 0..MaxSeq]
        /\ read \in [Browsers -> Nat]
        /\ seen \in [Browsers -> Seq(1..seq)]
    BY DEF ServerInv, HubInv, CoreInv, TypeOK, BrowserInv, Cursors, ResumeInv, ReconnectTypeOK
  <2>2. QED BY <2>1, SizesAssumption
<1> DEFINE q == Stream(s)
<1>5. \A r : /\ Stream(r)' = Stream(r) /\ Range(Stream(r))' = Range(Stream(r))
             /\ Owed(r)' = Owed(r)
  BY <1>3 DEF Stream, Owed, Range
<1>6. q \in Seq(1..seq)
  BY DeliveryTypes DEF ServerInv, HubInv
<1> HIDE DEF q
<1>7. DOMAIN q = 1..Len(q) /\ Len(q) \in Nat
  BY <1>6, LenProperties
<1>8. PICK n \in 1..seq : n = q[i]
  BY <1>2 DEF q
<1>9. /\ n \in Nat
      /\ i \in 1..Len(q) /\ i \in Nat
      /\ i = read[b] + 1
      /\ n \in Range(q)
  <2>1. n \in Nat
    BY <1>4, <1>8
  <2>2. i \in 1..Len(q) /\ i = read[b] + 1
    BY <1>2 DEF q
  <2>3. QED BY <1>7, <1>8, <2>1, <2>2 DEF Range
<1>10. /\ cursor'[b] = IF n > cursor[b] THEN n ELSE cursor[b]
       /\ seen'[b] = Append(seen[b], n)
       /\ read'[b] = i
  BY <1>2, <1>4, <1>8 DEF q
<1>11. Range(seen'[b]) = Range(seen[b]) \cup {n}
  <2> DEFINE r == seen[b]
             S == 1..seq
  <2>1. r \in Seq(S) /\ n \in S
    BY <1>4, <1>8
  <2> HIDE DEF r, S
  <2>2. Range(Append(r, n)) = Range(r) \cup {n}
    BY <2>1, AppendNew
  <2>3. QED BY <1>10, <2>2 DEF r
<1>12. ASSUME NEW a \in Browsers PROVE OvertakenInv(a)'
  BY <1>3 DEF GapInv, OvertakenInv
<1>13. ASSUME NEW a \in Browsers, a # b
       PROVE  CursorInv(a)' /\ ApartInv(a)' /\ ConnectedInv(a)'
  <2>1. cursor'[a] = cursor[a] /\ read'[a] = read[a] /\ seen'[a] = seen[a]
    BY <1>2, <1>4, <1>13
  <2>2. Settled(a)' = Settled(a) /\ Range(seen[a])' = Range(seen[a])
    BY <1>3, <2>1 DEF Settled
  <2>3. CursorInv(a)' /\ ApartInv(a)'
    BY <1>3, <2>1, <2>2 DEF CursorInv, ApartInv, GapInv
  <2>4. /\ Stream(conn[a])' = Stream(conn[a]) /\ Range(Stream(conn[a]))' = Range(Stream(conn[a]))
        /\ Owed(conn[a])' = Owed(conn[a])
    BY <1>3 DEF Stream, Range, Owed
  <2>5. Unread(a)' = Unread(a)
    BY <1>3, <2>1, <2>4 DEF Unread
  <2>6. ConnectedInv(a)'
    BY <1>3, <2>1, <2>2, <2>4, <2>5 DEF ConnectedInv, GapInv
  <2>7. QED BY <2>3, <2>6
<1>14. CursorInv(b)' /\ ApartInv(b)'
  <2>1. ApartInv(b)'
    BY <1>2, <1>3 DEF ApartInv
  <2>2. cursor[b] = stale[b] \/ cursor[b] \in Range(seen[b])
    BY DEF GapInv, CursorInv
  <2>3. Range(seen[b])' = Range(seen'[b])
    OBVIOUS
  <2>4. QED BY <1>3, <1>10, <1>11, <2>1, <2>2, <2>3 DEF CursorInv
<1>15. ConnectedInv(b)'
  <2>1. /\ \A m \in 1..liveFrom[s] : m \in Settled(b) \cup Range(q)
        /\ Range(q) \subseteq Range(seen[b]) \cup Unread(b)
        /\ \A k \in Range(q) : \A m \in (liveFrom[s] + 1)..k :
               m \in Range(q) \cup Owed(s) \cup Settled(b)
        /\ \/ cursor[b] = stale[b]
           \/ cursor[b] <= liveFrom[s]
           \/ cursor[b] \in Range(q)
        /\ \A m \in Range(seen[b]) :
               m \in Range(q) \/ \A k \in Range(q) \cup Owed(s) : k > m
    BY <1>1, <1>2 DEF GapInv, ConnectedInv, q
  <2>2. /\ Unread(b) = {q[k] : k \in (read[b] + 1)..Len(q)}
        /\ Unread(b)' = {q[k] : k \in (i + 1)..Len(q)}
    BY <1>1, <1>3, <1>5, <1>10 DEF Unread, q, Stream
  <2>3. read[b] \in Nat
    BY <1>4
  <2>4. ASSUME NEW k \in (read[b] + 1)..Len(q) PROVE k = i \/ k \in (i + 1)..Len(q)
    BY <1>7, <1>9, <2>3
  <2>5. Unread(b) \subseteq {n} \cup Unread(b)'
    BY <1>8, <2>2, <2>4
  <2>6. Settled(b) \subseteq Settled(b)'
    BY <1>3, <1>11 DEF Settled
  <2>7. \/ cursor'[b] = stale[b]
        \/ cursor'[b] <= liveFrom[s]
        \/ cursor'[b] \in Range(q)
    BY <1>9, <1>10, <2>1
  <2>8. /\ conn'[b] = s /\ liveFrom'[s] = liveFrom[s] /\ stale'[b] = stale[b]
        /\ Owed(conn[b])' = Owed(s)
        /\ Stream(conn[b])' = q /\ Range(Stream(conn[b]))' = Range(q)
    BY <1>1, <1>3 DEF Owed, Stream, Range, q
  <2>9. read'[b] <= Len(q)
    BY <1>7, <1>9, <1>10
  <2>10. Range(q) \subseteq Range(seen'[b]) \cup Unread(b)'
    BY <1>11, <2>1, <2>5
  <2>11. \A m \in 1..liveFrom[s] : m \in Settled(b)' \cup Range(q)
    BY <2>1, <2>6
  <2>12. \A k \in Range(q) : \A m \in (liveFrom[s] + 1)..k :
             m \in Range(q) \cup Owed(s) \cup Settled(b)'
    BY <2>1, <2>6
  <2>13. \A m \in Range(seen'[b]) : m \in Range(q) \/ \A k \in Range(q) \cup Owed(s) : k > m
    BY <1>9, <1>11, <2>1
  <2>14. Range(seen[b])' = Range(seen'[b])
    OBVIOUS
  <2>15. QED BY <2>7, <2>8, <2>9, <2>10, <2>11, <2>12, <2>13, <2>14 DEF ConnectedInv
<1>16. QED BY <1>12, <1>13, <1>14, <1>15 DEF GapInv

\* What was under way below the cursor when a connection ends had been overtaken, by a
\* message of another publisher.
LEMMA OvertakenByOthers ==
    ASSUME ServerInv, BrowserInv, NEW b \in Browsers, NEW s \in Subs, s = conn[b],
           \A m \in Range(seen[b]) :
               \/ m \in Range(Stream(s))
               \/ \A n \in Range(Stream(s)) \cup Owed(s) : n > m,
           NEW n \in Unread(b) \cup Owed(s), NEW m \in Range(seen[b]), m > n
    PROVE  m \in (n + 1)..seq /\ author[m] # author[n]
<1> DEFINE q == Stream(s)
<1>1. /\ q \in Seq(1..seq) /\ Owed(s) \subseteq 1..seq
      /\ seq \in Nat /\ read[b] \in Nat /\ seen[b] \in Seq(1..seq)
      /\ Unread(b) = {q[i] : i \in (read[b] + 1)..Len(q)}
  BY DeliveryTypes
  DEF ServerInv, HubInv, CoreInv, TypeOK, BrowserInv, ResumeInv, ReconnectTypeOK, Unread
<1>2. /\ m \notin Unread(b)
      /\ m \in Range(q) \/ \A k \in Range(q) \cup Owed(s) : k > m
      /\ \A i, j \in DOMAIN q : i < j /\ author[q[i]] = author[q[j]] => q[i] < q[j]
  <2>1. conn[b] # NoSub
    BY NoSubAssumption
  <2>2. m \notin Unread(b)
    BY <2>1 DEF BrowserInv, SeenNeverComes
  <2>3. QED BY <2>2 DEF ServerInv, DeliveryInv, PublisherOrder
<1> HIDE DEF q
<1>3. /\ Len(q) \in Nat /\ DOMAIN q = 1..Len(q)
      /\ \A i \in 1..Len(q) : q[i] \in 1..seq
      /\ m \in 1..seq
  BY <1>1, LenProperties, ElementOfSeq, RangeOfSeq
<1>4. ASSUME NEW j \in (read[b] + 1)..Len(q)
      PROVE  j \in 1..Len(q) /\ q[j] \in Range(q)
  <2>1. j \in 1..Len(q)
    BY <1>1, <1>3
  <2>2. QED BY <1>3, <2>1 DEF Range
<1>5. n \in 1..seq /\ n \in Range(q) \cup Owed(s)
  BY <1>1, <1>3, <1>4
<1>6. PICK i \in 1..Len(q) : m = q[i]
  <2>1. m \in Range(q)
    BY <1>2, <1>3, <1>5
  <2>2. QED BY <1>3, <2>1 DEF Range
<1>7. CASE n \in Unread(b)
  <2>1. PICK j \in (read[b] + 1)..Len(q) : n = q[j]
    BY <1>1, <1>7
  <2>2. i < j
    <3>1. i \notin (read[b] + 1)..Len(q)
      BY <1>1, <1>2, <1>6
    <3>2. QED BY <1>1, <1>3, <3>1
  <2>3. j \in 1..Len(q)
    BY <1>4
  <2>4. author[m] = author[n] => m < n
    BY <1>2, <1>3, <1>6, <2>1, <2>2, <2>3
  <2>5. QED BY <1>1, <1>3, <1>5, <2>4
<1>8. CASE n \in Owed(s)
  <2>1. PICK p \in Publishers : n = sending[p] /\ (s \in targets[p] \/ dropping[p] = s)
    BY <1>8, OwedMeans
  <2>2. author[n] = p
    BY <2>1, NoSubAssumption DEF ServerInv, HubInv, CoreInv, HoldsItsMessage, Busy
  <2>3. author[m] = p => m <= n
    BY <1>3, <2>1 DEF ServerInv, DeliveryInv, SendsItsLast
  <2>4. QED BY <1>1, <1>3, <1>5, <2>2, <2>3
<1>9. QED BY <1>7, <1>8

\* A connection that ends leaves nothing unexplained below the cursor: what was not
\* read was overtaken, or stands under the numbers of the earlier server.
LEMMA CloseGap ==
    ASSUME ServerInv, BrowserInv, GapInv, NEW b \in Browsers, Break(b) \/ OnClose(b)
    PROVE  GapInv'
<1>1. UNCHANGED <<vars, cursor, read, seen, agedOut, stale, buried, cutOff>>
  BY DEF Break, OnClose, lossVars
<1>2. /\ conn \in [Browsers -> Subs \cup {NoSub}]
      /\ overtaken \in [Browsers -> SUBSET (1..seq)]
      /\ seq \in Nat
      /\ liveFrom \in [Subs -> 0..seq]
      /\ cursor[b] \in Nat
  <2>1. /\ conn \in [Browsers -> Subs \cup {NoSub}]
        /\ overtaken \in [Browsers -> SUBSET (1..seq)]
        /\ seq \in Nat
        /\ liveFrom \in [Subs -> 0..seq]
        /\ cursor \in [Browsers -> 0..MaxSeq]
    BY DEF ServerInv, HubInv, CoreInv, TypeOK, BrowserInv, Cursors, ResumeInv, ReconnectTypeOK
  <2>2. QED BY <2>1, SizesAssumption
<1>3. UNCHANGED <<seq, author, joined, liveFrom, aborted, chan, got, sending, targets, dropping>>
  BY <1>1 DEF vars, hubVars, chanVars, pubVars, histVars
<1>4. \A a \in Browsers : CursorInv(a)'
  BY <1>1 DEF GapInv, CursorInv
\* The browsers whose connection stays.
<1>5. ASSUME NEW a \in Browsers, conn'[a] = conn[a], overtaken'[a] = overtaken[a]
      PROVE  ApartInv(a)' /\ ConnectedInv(a)' /\ OvertakenInv(a)'
  <2>1. Settled(a)' = Settled(a) /\ Range(seen[a])' = Range(seen[a])
    BY <1>1, <1>3, <1>5 DEF Settled
  <2>2. ApartInv(a)' /\ OvertakenInv(a)'
    BY <1>1, <1>3, <1>5, <2>1 DEF GapInv, ApartInv, OvertakenInv
  <2>3. /\ Stream(conn[a])' = Stream(conn[a])
        /\ Range(Stream(conn[a]))' = Range(Stream(conn[a]))
        /\ Owed(conn[a])' = Owed(conn[a])
    BY <1>3, <1>5 DEF Stream, Range, Owed
  <2>4. Unread(a)' = Unread(a)
    BY <1>1, <1>5, <2>3 DEF Unread
  <2>5. ConnectedInv(a)'
    BY <1>1, <1>3, <1>5, <2>1, <2>3, <2>4 DEF GapInv, ConnectedInv
  <2>6. QED BY <2>2, <2>5
\* The browser whose connection closes.
<1>6. ASSUME NEW s \in Subs, s = conn[b], s # NoSub, conn'[b] = NoSub,
             NEW lost \in SUBSET (1..seq), overtaken'[b] = overtaken[b] \cup lost,
             lost = {n \in Unread(b) \cup Owed(s) : \E m \in Range(seen[b]) : m > n}
      PROVE  ApartInv(b)' /\ ConnectedInv(b)' /\ OvertakenInv(b)'
  <2>1. /\ \A m \in 1..liveFrom[s] : m \in Settled(b) \cup Range(Stream(s))
        /\ Range(Stream(s)) \subseteq Range(seen[b]) \cup Unread(b)
        /\ \A n \in Range(Stream(s)) : \A m \in (liveFrom[s] + 1)..n :
               m \in Range(Stream(s)) \cup Owed(s) \cup Settled(b)
        /\ \/ cursor[b] = stale[b]
           \/ cursor[b] <= liveFrom[s]
           \/ cursor[b] \in Range(Stream(s))
        /\ \A m \in Range(seen[b]) :
               m \in Range(Stream(s)) \/ \A n \in Range(Stream(s)) \cup Owed(s) : n > m
        /\ cursor[b] = stale[b] \/ cursor[b] \in Range(seen[b])
    BY <1>6 DEF GapInv, ConnectedInv, CursorInv
  <2>2. (Unread(b) \cup Owed(s)) \cap Range(seen[b]) = {}
    BY <1>6 DEF BrowserInv, SeenNeverComes
  <2>3. Settled(b)' = Settled(b) \cup lost
    BY <1>1, <1>3, <1>6 DEF Settled
  <2>4. ASSUME NEW m \in 1..seq, m <= cursor[b] PROVE m \in Settled(b) \cup lost \/ m <= stale[b]
    <3>1. m \in Unread(b) \cup Owed(s) => m \in lost \/ m <= stale[b]
      <4>1. CASE cursor[b] = stale[b]
        BY <2>4, <4>1
      <4>2. CASE cursor[b] \in Range(seen[b])
        <5>1. m \in Unread(b) \cup Owed(s) => cursor[b] > m
          BY <1>2, <2>2, <2>4, <4>2
        <5>2. QED BY <1>6, <4>2, <5>1
      <4>3. QED BY <2>1, <4>1, <4>2
    <3>2. m \in Range(Stream(s)) => m \in Settled(b) \cup lost \/ m <= stale[b]
      BY <2>1, <3>1 DEF Settled
    <3>3. liveFrom[s] \in Nat
      BY <1>2
    <3>4. CASE m <= liveFrom[s]
      <4>1. m \in 1..liveFrom[s]
        BY <1>2, <3>3, <3>4
      <4>2. QED BY <2>1, <3>2, <4>1
    <3>5. CASE m > liveFrom[s]
      <4>1. CASE cursor[b] = stale[b]
        BY <2>4, <4>1
      <4>2. CASE cursor[b] \in Range(Stream(s))
        <5>1. m \in (liveFrom[s] + 1)..cursor[b]
          BY <1>2, <2>4, <3>3, <3>5
        <5>2. m \in Range(Stream(s)) \cup Owed(s) \cup Settled(b)
          BY <2>1, <4>2, <5>1
        <5>3. QED BY <3>1, <3>2, <5>2
      <4>3. CASE cursor[b] <= liveFrom[s]
        BY <1>2, <2>4, <3>3, <3>5, <4>3
      <4>4. QED BY <2>1, <4>1, <4>2, <4>3
    <3>6. m \in Nat
      BY <1>2
    <3>7. QED BY <3>3, <3>4, <3>5, <3>6
  <2>5. ApartInv(b)'
    BY <1>1, <1>3, <2>3, <2>4 DEF ApartInv
  <2>6. ConnectedInv(b)'
    BY <1>6 DEF ConnectedInv
  <2>7. ASSUME NEW n \in overtaken'[b] PROVE \E m \in (n + 1)..seq : author[m] # author[n]
    <3>1. CASE n \in overtaken[b]
      BY <3>1 DEF GapInv, OvertakenInv
    <3>2. CASE n \in lost
      <4>1. n \in Unread(b) \cup Owed(s)
        BY <1>6, <3>2
      <4>2. PICK m \in Range(seen[b]) : m > n
        BY <1>6, <3>2
      <4>3. m \in (n + 1)..seq /\ author[m] # author[n]
        BY <1>6, <2>1, <4>1, <4>2, OvertakenByOthers
      <4>4. QED BY <4>3
    <3>3. QED BY <1>6, <2>7, <3>1, <3>2
  <2>8. OvertakenInv(b)'
    BY <1>3, <2>7 DEF OvertakenInv
  <2>9. QED BY <2>5, <2>6, <2>8
<1>7. CASE conn' = conn /\ overtaken' = overtaken
  BY <1>4, <1>5, <1>7 DEF GapInv
<1>8. CASE /\ conn[b] \in Subs /\ conn[b] # NoSub
           /\ conn' = [conn EXCEPT ![b] = NoSub]
           /\ \E lost \in SUBSET (1..seq) :
                  /\ overtaken' = [overtaken EXCEPT ![b] = overtaken[b] \cup lost]
                  /\ lost = {n \in Unread(b) \cup Owed(conn[b]) :
                                \E m \in Range(seen[b]) : m > n}
  <2>1. PICK lost \in SUBSET (1..seq) :
            /\ overtaken' = [overtaken EXCEPT ![b] = overtaken[b] \cup lost]
            /\ lost = {n \in Unread(b) \cup Owed(conn[b]) : \E m \in Range(seen[b]) : m > n}
    BY <1>8
  <2>2. conn'[b] = NoSub /\ overtaken'[b] = overtaken[b] \cup lost
    BY <1>2, <1>8, <2>1
  <2>3. ApartInv(b)' /\ ConnectedInv(b)' /\ OvertakenInv(b)'
    BY <1>6, <1>8, <2>1, <2>2
  <2>4. ASSUME NEW a \in Browsers, a # b PROVE ApartInv(a)' /\ ConnectedInv(a)' /\ OvertakenInv(a)'
    <3>1. conn'[a] = conn[a] /\ overtaken'[a] = overtaken[a]
      BY <1>2, <1>8, <2>1, <2>4
    <3>2. QED BY <1>5, <3>1
  <2>5. QED BY <1>4, <2>3, <2>4 DEF GapInv
<1>9. QED BY <1>7, <1>8, OvertakenAtClose

\* A new process has published nothing that a browser could miss.
LEMMA RestartGap == Restart => GapInv'
<1> SUFFICES ASSUME Restart PROVE GapInv'
  OBVIOUS
<1>1. /\ seq' = 0 /\ stale' = cursor /\ cursor' = cursor
      /\ \A b \in Browsers : conn'[b] = NoSub /\ overtaken'[b] = {}
  BY DEF Restart
<1>2. QED BY <1>1 DEF GapInv, CursorInv, ApartInv, ConnectedInv, OvertakenInv

LEMMA NextGap ==
    ASSUME ServerInv, ServerInv', BrowserInv, GapInv, [ReconnectNext]_reconnectVars
    PROVE  GapInv'
<1>1. ASSUME \/ \E p \in Publishers : \/ Broadcast(p) /\ UNCHANGED <<clientVars, lossVars>>
                                      \/ Publish(p)
             \/ \E s \in Subs : \/ Receive(s) /\ UNCHANGED <<clientVars, lossVars>>
                                \/ ServeReturns(s)
      PROVE  GapInv'
  <2>1. UNCHANGED <<clientVars, cutOff>>
    BY <1>1 DEF Publish, ServeReturns, lossVars
  <2>2. \/ \E p \in Publishers : \/ Broadcast(p) /\ UNCHANGED overtaken
                                 \/ Publish(p)
        \/ \E s \in Subs : (Receive(s) \/ Leave(s)) /\ UNCHANGED overtaken
    BY <1>1 DEF ServeReturns, lossVars
  <2>3. QED BY <2>1, <2>2, ServerStepGap
<1>2. ASSUME NEW b \in Browsers, NEW s \in Subs, Connect(b, s) PROVE GapInv'
  BY <1>2, ConnectGap
<1>3. ASSUME NEW b \in Browsers, OnMessage(b) PROVE GapInv'
  BY <1>3, OnMessageGap
<1>4. ASSUME NEW b \in Browsers, Break(b) \/ OnClose(b) PROVE GapInv'
  BY <1>4, CloseGap
<1>5. CASE Restart
  BY <1>5, RestartGap
<1>6. CASE UNCHANGED reconnectVars
  <2>1. UNCHANGED <<seq, author, liveFrom, aborted, chan, got, sending, targets, dropping,
                    conn, cursor, read, seen, agedOut, stale, buried, cutOff, overtaken>>
    BY <1>6 DEF reconnectVars, clientVars, lossVars, vars, hubVars, chanVars, pubVars, histVars
  <2>2. \A r : Stream(r)' = Stream(r) /\ Range(Stream(r))' = Range(Stream(r)) /\ Owed(r)' = Owed(r)
    BY <2>1 DEF Stream, Owed, Range
  <2>3. ASSUME NEW a \in Browsers
        PROVE  CursorInv(a)' /\ ApartInv(a)' /\ ConnectedInv(a)' /\ OvertakenInv(a)'
    <3>1. Settled(a)' = Settled(a) /\ Range(seen[a])' = Range(seen[a])
      BY <2>1 DEF Settled
    <3>2. /\ Stream(conn[a])' = Stream(conn[a])
          /\ Range(Stream(conn[a]))' = Range(Stream(conn[a]))
          /\ Owed(conn[a])' = Owed(conn[a])
      BY <2>1, <2>2 DEF Stream, Range, Owed
    <3>3. Unread(a)' = Unread(a)
      BY <2>1, <3>2 DEF Unread
    <3>4. CursorInv(a)' /\ ApartInv(a)' /\ OvertakenInv(a)'
      BY <2>1, <3>1 DEF GapInv, CursorInv, ApartInv, OvertakenInv
    <3>5. ConnectedInv(a)'
      BY <2>1, <3>1, <3>2, <3>3 DEF GapInv, ConnectedInv
    <3>6. QED BY <3>4, <3>5
  <2>4. QED BY <2>3 DEF GapInv
<1>7. QED BY <1>1, <1>2, <1>3, <1>4, <1>5, <1>6 DEF ReconnectNext, Serving

\* What a browser that resumes with its cursor misses is explained, for any number of
\* publishers, browsers and connections, any size of backlog and channel and any
\* restarts: the backlog had lost it, the channel had no room for it in the backfill, a
\* message of another publisher overtook it, a panic aborted it, or it stood under the
\* numbers of an earlier server.
THEOREM EveryGapIsExplained == ReconnectSpec => []GapsAreExplained
<1>1. ReconnectInit => ServerInv /\ BrowserInv /\ GapInv
  BY InitCoreInv, InitOwnership, InitDelivery, InitBrowsers, InitGap
     DEF ReconnectInit, ServerInv, HubInv
<1>2. /\ ServerInv /\ BrowserInv /\ GapInv
      /\ [ReconnectNext]_reconnectVars
      => (ServerInv /\ BrowserInv /\ GapInv)'
  <2> SUFFICES ASSUME ServerInv, BrowserInv, GapInv, [ReconnectNext]_reconnectVars
               PROVE  ServerInv' /\ BrowserInv' /\ GapInv'
    OBVIOUS
  <2>1. ServerInv'
    BY ServerStep DEF BrowserInv
  <2>2. BrowserInv'
    BY <2>1, BrowserStep
  <2>3. GapInv'
    BY <2>1, NextGap
  <2>4. QED BY <2>1, <2>2, <2>3
<1>3. ServerInv /\ BrowserInv /\ GapInv => GapsAreExplained
  BY GapInvSuffices
<1>4. QED BY <1>1, <1>2, <1>3, PTL DEF ReconnectSpec

=============================================================================
