--------------------------- MODULE DashboardProofs ---------------------------
(***************************************************************************)
(* Proofs about Dashboard: what the run panel displays once the last reply *)
(* has arrived, in whatever order clicks, messages, replies and failures   *)
(* come, for any number of runs, requests and other dashboards.            *)
(***************************************************************************)
EXTENDS Dashboard, SequenceTheorems, FiniteSetTheorems, TLAPS

-----------------------------------------------------------------------------
(* The inductive invariant *)

Requests == [kind     : {"run", "note", "resolve"},
             run      : RunIds,
             resolved : BOOLEAN,
             notes    : Nat,
             status   : {"sent", "stored", "answered"},
             late     : BOOLEAN]

Messages == {NoteMessage(r) : r \in RunIds} \cup {IncidentMessage(v) : v \in Nat}

\* Requests for the incidents, answered with a version up to this one.
Refreshes(n) == {Sent} \cup {Answered(v) : v \in 0..n}

\* What the server and the timeline hold: no snapshot on its way is newer than
\* the row of the incident.
Server ==
    /\ notes \in [RunIds -> Nat]
    /\ resolved \in [RunIds -> BOOLEAN]
    /\ unannounced \in [RunIds -> Nat]
    /\ \A r \in RunIds : unannounced[r] <= notes[r]
    /\ version \in Nat /\ published \in Nat
    /\ published <= version /\ version <= published + 1
    /\ shown \in 0..version
    /\ socket \in Seq(Messages)
    /\ \A i \in 1..Len(socket) : socket[i].kind = "incident" => socket[i].version <= version
    /\ backfills \in Seq(Refreshes(version))

\* What the page holds: it asks only for runs that were selected.
Page ==
    /\ requests \in Seq(Requests)
    /\ \A i \in 1..Len(requests) : requests[i].status = "stored" => requests[i].kind = "note"
    /\ selected \in RunIds \cup {NoRun}
    /\ selected = NoRun => requests = <<>>
    /\ panel \in [run : RunIds \cup {NoRun}, notes : Nat, resolved : BOOLEAN]
    /\ inDoubt \in BOOLEAN
    /\ elsewhere \in Seq(RunIds)

Types == Server /\ Page

\* The requests for a run that are in flight.
Loads == {i \in 1..Len(requests) : requests[i].kind = "run"}

NoteOnSocket == \E i \in 1..Len(socket) : socket[i] = NoteMessage(selected)

NoteStored == \E i \in 1..Len(requests) : /\ requests[i].kind = "note"
                                          /\ requests[i].status = "stored"
                                          /\ requests[i].run = selected

\* A message is still to come that reloads the panel for a note ...
NoteComing == unannounced[selected] > 0 \/ NoteOnSocket \/ NoteStored

\* ... or a reply that reloads it for a flag.
FlagComing ==
    \E i \in 1..Len(requests) : /\ requests[i].kind = "resolve"
                                /\ requests[i].status = "answered"
                                /\ requests[i].run = selected

SetElsewhere == \E i \in 1..Len(elsewhere) : elsewhere[i] = selected

\* What was read of the selected run is what the server has, or will be read again.
IsCurrent(n, flag) ==
    /\ n = notes[selected] \/ NoteComing
    /\ flag = resolved[selected] \/ SetElsewhere \/ FlagComing

\* Requests come too late in the order they were issued in.
LateFirst == \A i, j \in Loads : i < j /\ requests[j].late => requests[i].late

\* The last request for a run, if it is not too late, is for the selected run.
LastIsSelected ==
    \A i \in Loads : ~requests[i].late /\ (\A j \in Loads : j <= i) =>
        /\ requests[i].run = selected
        /\ requests[i].status = "answered" => IsCurrent(requests[i].notes, requests[i].resolved)

\* If no such request is left and none failed, the panel is that of the selected run.
PanelFollows ==
    (\A i \in Loads : requests[i].late) /\ ~inDoubt =>
        /\ panel.run = selected
        /\ selected # NoRun => IsCurrent(panel.notes, panel.resolved)

PanelInv == LateFirst /\ LastIsSelected /\ PanelFollows

-----------------------------------------------------------------------------
(* Requests that have settled *)

LEMMA RemoveAtProperties ==
    ASSUME NEW S, NEW q \in Seq(S), NEW k \in 1..Len(q)
    PROVE  /\ RemoveAt(q, k) \in Seq(S)
           /\ Len(RemoveAt(q, k)) = Len(q) - 1
           /\ \A i \in 1..(Len(q) - 1) :
                  RemoveAt(q, k)[i] = IF i < k THEN q[i] ELSE q[i + 1]
<1> DEFINE front == SubSeq(q, 1, k - 1)
           back  == SubSeq(q, k + 1, Len(q))
<1>0. Len(q) \in Nat /\ DOMAIN q = 1..Len(q) /\ \A i \in 1..Len(q) : q[i] \in S
  BY LenProperties, ElementOfSeq
<1>1. /\ front \in Seq(S) /\ Len(front) = k - 1
      /\ \A i \in 1..(k - 1) : front[i] = q[i]
  BY <1>0, SubSeqProperties
<1>2. /\ back \in Seq(S) /\ Len(back) = Len(q) - k
      /\ \A i \in 1..(Len(q) - k) : back[i] = q[i + k]
  <2>1. k + 1 \in Int /\ Len(q) \in Int /\ \A i \in (k + 1)..Len(q) : q[i] \in S
    BY <1>0
  <2>2. /\ back \in Seq(S)
        /\ Len(back) = IF k + 1 <= Len(q) THEN Len(q) - (k + 1) + 1 ELSE 0
        /\ \A i \in 1..(Len(q) - (k + 1) + 1) : back[i] = q[(k + 1) + i - 1]
    BY <2>1, SubSeqProperties
  <2> HIDE DEF back
  <2>3. Len(back) = Len(q) - k /\ Len(q) - (k + 1) + 1 = Len(q) - k
    <3>1. PICK m \in Nat : m = Len(q)
      BY <1>0
    <3>2. k \in 1..m /\ Len(back) = IF k + 1 <= m THEN m - (k + 1) + 1 ELSE 0
      BY <2>2, <3>1
    <3> QED BY <3>1, <3>2
  <2>4. ASSUME NEW i \in 1..(Len(q) - k) PROVE back[i] = q[i + k]
    <3>1. (k + 1) + i - 1 = i + k
      BY <1>0
    <3> QED BY <2>2, <2>3, <3>1
  <2> QED BY <2>2, <2>3, <2>4
<1>3. RemoveAt(q, k) = front \o back
  BY DEF RemoveAt
<1> HIDE DEF front, back
<1>4. /\ front \o back \in Seq(S)
      /\ Len(front \o back) = Len(q) - 1
      /\ \A i \in 1..(Len(q) - 1) :
             (front \o back)[i] = IF i < k THEN front[i] ELSE back[i - (k - 1)]
  <2>1. /\ front \o back \in Seq(S)
        /\ Len(front \o back) = Len(front) + Len(back)
        /\ \A i \in 1..(Len(front) + Len(back)) :
               (front \o back)[i] = IF i <= Len(front) THEN front[i] ELSE back[i - Len(front)]
    BY <1>1, <1>2, ConcatProperties
  <2>2. Len(front) + Len(back) = Len(q) - 1 /\ \A i \in Int : i <= k - 1 <=> i < k
    BY <1>0, <1>1, <1>2
  <2> QED BY <1>1, <2>1, <2>2
<1>5. ASSUME NEW i \in 1..(Len(q) - 1)
      PROVE  (front \o back)[i] = IF i < k THEN q[i] ELSE q[i + 1]
  <2>1. CASE i < k
    BY <1>0, <1>1, <1>4, <2>1
  <2>2. CASE ~(i < k)
    <3>1. i - (k - 1) \in 1..(Len(q) - k) /\ (i - (k - 1)) + k = i + 1
      BY <1>0, <2>2
    <3>2. QED BY <1>2, <1>4, <2>2, <3>1
  <2> QED BY <2>1, <2>2
<1> QED BY <1>3, <1>4, <1>5

\* Where the i-th of the remaining requests stood before k settled.
Was(k, i) == IF i < k THEN i ELSE i + 1

\* When k settles, the others keep their order; only "late" may change.
LEMMA SettledProperties ==
    ASSUME requests \in Seq(Requests), NEW k \in 1..Len(requests), NEW last \in Int
    PROVE  /\ Settled(k, last) \in Seq(Requests)
           /\ Len(Settled(k, last)) = Len(requests) - 1
           /\ \A i \in 1..(Len(requests) - 1) :
                  /\ Was(k, i) \in 1..Len(requests)
                  /\ Settled(k, last)[i] =
                         [requests[Was(k, i)] EXCEPT
                             !.late = @ \/ (requests[Was(k, i)].kind = "run" /\ Was(k, i) < last)]
<1> DEFINE Mark(i) == [requests[i] EXCEPT !.late = @ \/ (requests[i].kind = "run" /\ i < last)]
           marked == [i \in DOMAIN requests |-> Mark(i)]
<1>0. /\ Len(requests) \in Nat /\ DOMAIN requests = 1..Len(requests)
      /\ \A i \in 1..Len(requests) : requests[i] \in Requests
  BY LenProperties, ElementOfSeq
<1>1. \A i \in 1..Len(requests) : Mark(i) \in Requests
  BY <1>0 DEF Requests
<1> HIDE DEF Mark
<1>2. marked \in Seq(Requests) /\ Len(marked) = Len(requests)
      /\ \A i \in 1..Len(requests) : marked[i] = Mark(i)
  BY <1>0, <1>1, IsASeq
<1>3. PICK q : q = marked
  OBVIOUS
<1>4. /\ RemoveAt(q, k) \in Seq(Requests)
      /\ Len(RemoveAt(q, k)) = Len(requests) - 1
      /\ \A i \in 1..(Len(requests) - 1) :
             RemoveAt(q, k)[i] = IF i < k THEN q[i] ELSE q[i + 1]
  <2>1. q \in Seq(Requests) /\ Len(q) = Len(requests) /\ k \in 1..Len(q)
    BY <1>2, <1>3
  <2>2. /\ RemoveAt(q, k) \in Seq(Requests)
        /\ Len(RemoveAt(q, k)) = Len(q) - 1
        /\ \A i \in 1..(Len(q) - 1) : RemoveAt(q, k)[i] = IF i < k THEN q[i] ELSE q[i + 1]
    BY ONLY <2>1, RemoveAtProperties
  <2> QED BY <2>1, <2>2
<1>5. Settled(k, last) = RemoveAt(q, k)
  BY <1>3 DEF Settled, Mark
<1>6. ASSUME NEW i \in 1..(Len(requests) - 1)
      PROVE  Was(k, i) \in 1..Len(requests) /\ RemoveAt(q, k)[i] = Mark(Was(k, i))
  <2>1. Was(k, i) \in 1..Len(requests)
    BY <1>0 DEF Was
  <2>2. RemoveAt(q, k)[i] = q[Was(k, i)]
    BY <1>4, <2>1 DEF Was
  <2> QED BY <1>2, <1>3, <2>1, <2>2
<1> QED BY <1>4, <1>5, <1>6 DEF Mark

\* The replies that are left, and their types.
LEMMA SettledTypes ==
    ASSUME Types, NEW k \in DOMAIN requests, NEW last \in Int
    PROVE  /\ k \in 1..Len(requests)
           /\ Settled(k, last) \in Seq(Requests)
           /\ \A i \in 1..Len(Settled(k, last)) :
                  Settled(k, last)[i].status = "stored" => Settled(k, last)[i].kind = "note"
<1>0. /\ requests \in Seq(Requests) /\ DOMAIN requests = 1..Len(requests) /\ Len(requests) \in Nat
      /\ \A i \in 1..Len(requests) : requests[i] \in Requests
      /\ \A i \in 1..Len(requests) : requests[i].status = "stored" => requests[i].kind = "note"
  BY LenProperties, ElementOfSeq DEF Types, Page
<1>1. k \in 1..Len(requests)
  BY <1>0
<1>2. /\ Settled(k, last) \in Seq(Requests)
      /\ Len(Settled(k, last)) = Len(requests) - 1
      /\ \A i \in 1..(Len(requests) - 1) :
             /\ Was(k, i) \in 1..Len(requests)
             /\ Settled(k, last)[i] =
                    [requests[Was(k, i)] EXCEPT
                        !.late = @ \/ (requests[Was(k, i)].kind = "run" /\ Was(k, i) < last)]
  BY <1>0, <1>1, SettledProperties
<1>3. ASSUME NEW q \in Requests, NEW b
      PROVE  [q EXCEPT !.late = b].status = q.status /\ [q EXCEPT !.late = b].kind = q.kind
  BY DEF Requests
<1>4. ASSUME NEW i \in 1..Len(Settled(k, last))
      PROVE  Settled(k, last)[i].status = "stored" => Settled(k, last)[i].kind = "note"
  <2>1. i \in 1..(Len(requests) - 1) /\ Was(k, i) \in 1..Len(requests)
    BY <1>2
  <2>2. PICK b : Settled(k, last)[i] = [requests[Was(k, i)] EXCEPT !.late = b]
    BY <1>2, <2>1
  <2>3. /\ Settled(k, last)[i].status = requests[Was(k, i)].status
        /\ Settled(k, last)[i].kind = requests[Was(k, i)].kind
    BY <1>0, <1>3, <2>1, <2>2
  <2> QED BY <1>0, <2>1, <2>3
<1> QED BY <1>1, <1>2, <1>4

\* A message more, or one less, on the socket.
LEMMA SocketTypes ==
    ASSUME Server
    PROVE  /\ \A m \in Messages :
                  (m.kind = "incident" => m.version <= version) =>
                  /\ Append(socket, m) \in Seq(Messages)
                  /\ \A i \in 1..Len(Append(socket, m)) :
                         Append(socket, m)[i].kind = "incident" => Append(socket, m)[i].version <= version
           /\ socket # <<>> =>
                  /\ Head(socket) \in Messages
                  /\ Head(socket).kind = "incident" => Head(socket).version \in 0..version
                  /\ Tail(socket) \in Seq(Messages)
                  /\ \A i \in 1..Len(Tail(socket)) :
                         Tail(socket)[i].kind = "incident" => Tail(socket)[i].version <= version
<1>0. /\ socket \in Seq(Messages) /\ version \in Nat /\ Len(socket) \in Nat
      /\ \A i \in 1..Len(socket) : socket[i] \in Messages
      /\ \A i \in 1..Len(socket) : socket[i].kind = "incident" => socket[i].version <= version
  BY LenProperties, ElementOfSeq DEF Server
<1>1. ASSUME NEW m \in Messages, m.kind = "incident" => m.version <= version
      PROVE  /\ Append(socket, m) \in Seq(Messages)
             /\ \A i \in 1..Len(Append(socket, m)) :
                    Append(socket, m)[i].kind = "incident" => Append(socket, m)[i].version <= version
  <2>1. /\ Append(socket, m) \in Seq(Messages)
        /\ Len(Append(socket, m)) = Len(socket) + 1
        /\ \A i \in 1..Len(socket) : Append(socket, m)[i] = socket[i]
        /\ Append(socket, m)[Len(socket) + 1] = m
    BY <1>0, AppendProperties
  <2> QED BY <1>0, <1>1, <2>1
<1>2. ASSUME socket # <<>>
      PROVE  /\ Head(socket) \in Messages
             /\ Head(socket).kind = "incident" => Head(socket).version \in 0..version
             /\ Tail(socket) \in Seq(Messages)
             /\ \A i \in 1..Len(Tail(socket)) :
                    Tail(socket)[i].kind = "incident" => Tail(socket)[i].version <= version
  <2>1. /\ Len(socket) \in Nat \ {0}
        /\ Head(socket) = socket[1]
        /\ Tail(socket) \in Seq(Messages)
        /\ Len(Tail(socket)) = Len(socket) - 1
        /\ \A i \in 1..Len(Tail(socket)) : Tail(socket)[i] = socket[i + 1]
    BY <1>0, <1>2, HeadTailProperties, EmptySeq
  <2>2. Head(socket) \in Messages
    BY <1>0, <2>1
  <2>3. ASSUME Head(socket).kind = "incident"
        PROVE  Head(socket).version \in 0..version
    <3>1. PICK v \in Nat : Head(socket) = IncidentMessage(v)
      BY <2>2, <2>3 DEF Messages, NoteMessage, IncidentMessage
    <3>2. Head(socket).version <= version
      BY <1>0, <2>1, <2>3
    <3> QED BY <1>0, <3>1, <3>2 DEF IncidentMessage
  <2> QED BY <1>0, <2>1, <2>2, <2>3
<1> QED BY <1>1, <1>2

\* A request more.
LEMMA AppendTypes ==
    ASSUME NEW rest \in Seq(Requests),
           \A i \in 1..Len(rest) : rest[i].status = "stored" => rest[i].kind = "note",
           NEW kind \in {"run", "note", "resolve"}, NEW run \in RunIds, NEW flag \in BOOLEAN
    PROVE  /\ Append(rest, Request(kind, run, flag)) \in Seq(Requests)
           /\ \A i \in 1..Len(Append(rest, Request(kind, run, flag))) :
                  Append(rest, Request(kind, run, flag))[i].status = "stored" =>
                      Append(rest, Request(kind, run, flag))[i].kind = "note"
<1>1. PICK q : q = Request(kind, run, flag)
  OBVIOUS
<1>2. q \in Requests /\ q.status = "sent"
  BY <1>1 DEF Request, Requests
<1>3. /\ Append(rest, q) \in Seq(Requests)
      /\ Len(Append(rest, q)) = Len(rest) + 1
      /\ \A i \in 1..Len(rest) : Append(rest, q)[i] = rest[i]
      /\ Append(rest, q)[Len(rest) + 1] = q
      /\ Len(rest) \in Nat
  BY <1>2, AppendProperties, LenProperties
<1> QED BY <1>1, <1>2, <1>3

\* Fields of the k-th request change, but neither its kind nor its run.
LEMMA ChangeTypes ==
    ASSUME Types, NEW k \in DOMAIN requests, NEW q \in Requests, q.kind = requests[k].kind,
           q.status = "stored" => q.kind = "note"
    PROVE  /\ [requests EXCEPT ![k] = q] \in Seq(Requests)
           /\ requests # <<>>
           /\ \A i \in 1..Len([requests EXCEPT ![k] = q]) :
                  [requests EXCEPT ![k] = q][i].status = "stored" =>
                      [requests EXCEPT ![k] = q][i].kind = "note"
<1>1. /\ requests \in Seq(Requests) /\ k \in 1..Len(requests) /\ Len(requests) \in Nat
      /\ \A i \in 1..Len(requests) : requests[i].status = "stored" => requests[i].kind = "note"
  BY LenProperties DEF Types, Page
<1>2. /\ [requests EXCEPT ![k] = q] \in Seq(Requests)
      /\ Len([requests EXCEPT ![k] = q]) = Len(requests)
      /\ \A i \in 1..Len(requests) :
             [requests EXCEPT ![k] = q][i] = IF i = k THEN q ELSE requests[i]
  BY <1>1, ExceptSeq
<1>3. requests # <<>>
  BY <1>1, EmptySeq
<1> QED BY <1>1, <1>2, <1>3

\* A request is about a run, and then one is selected.
LEMMA RequestTypes ==
    ASSUME Types, NEW k \in DOMAIN requests
    PROVE  requests[k] \in Requests /\ requests # <<>> /\ selected \in RunIds /\ requests[k].run \in RunIds
<1>1. requests \in Seq(Requests) /\ k \in 1..Len(requests)
  BY LenProperties DEF Types, Page
<1>2. requests[k] \in Requests /\ requests # <<>>
  BY <1>1, ElementOfSeq, EmptySeq
<1> QED BY <1>2 DEF Types, Page, Requests

LEMMA TypesInit == Init => Types
<1> SUFFICES ASSUME Init PROVE Types
  OBVIOUS
<1>1. <<>> \in Seq(Messages) /\ <<>> \in Seq(Requests) /\ <<>> \in Seq(RunIds) /\ Len(<<>>) = 0
  BY EmptySeq
<1>2. Server
  <2>1. Sent \in Refreshes(0)
    BY DEF Refreshes
  <2>2. <<Sent>> \in Seq(Refreshes(0))
    BY <2>1
  <2>3. version = 0 /\ backfills = <<Sent>>
    BY DEF Init
  <2>4. backfills \in Seq(Refreshes(version))
    BY <2>2, <2>3
  <2> QED BY <1>1, <2>4 DEF Init, Server
<1>3. Page
  <2>1. /\ requests = <<>> /\ elsewhere = <<>> /\ selected = NoRun /\ inDoubt = FALSE
        /\ panel = [run |-> NoRun, notes |-> 0, resolved |-> FALSE]
    BY DEF Init
  <2>2. panel \in [run : RunIds \cup {NoRun}, notes : Nat, resolved : BOOLEAN]
    BY <2>1
  <2>3. inDoubt \in BOOLEAN
    BY <2>1
  <2>4. \A i \in 1..Len(requests) : requests[i].status = "stored" => requests[i].kind = "note"
    BY <1>1, <2>1
  <2>5. requests \in Seq(Requests) /\ elsewhere \in Seq(RunIds)
    BY <1>1, <2>1
  <2> QED BY <2>1, <2>2, <2>3, <2>4, <2>5 DEF Page
<1> QED BY <1>2, <1>3 DEF Types

\* Other dashboards and the pipeline.
LEMMA OthersTypes ==
    ASSUME Types,
           \/ \E r \in RunIds : OtherNote(r) \/ PublishOtherNote(r) \/ OtherResolve(r)
           \/ SaveIncident \/ PublishIncident
    PROVE  Types'
<1> USE DEF Types, rows, timeline, history
<1>1. CASE \E r \in RunIds : OtherNote(r)
  <2>1. PICK r \in RunIds : OtherNote(r)
    BY <1>1
  <2>2. Server'
    BY <2>1 DEF OtherNote, Server
  <2>3. Page'
    BY <2>1 DEF OtherNote, Page
  <2> QED BY <2>2, <2>3
<1>2. CASE \E r \in RunIds : PublishOtherNote(r)
  <2>1. PICK r \in RunIds : PublishOtherNote(r)
    BY <1>2
  <2>2. PICK m : m = NoteMessage(r)
    OBVIOUS
  <2>3. m \in Messages /\ (m.kind = "incident" => m.version <= version)
    BY <2>2 DEF Messages, NoteMessage
  <2>4. /\ Append(socket, m) \in Seq(Messages)
        /\ \A i \in 1..Len(Append(socket, m)) :
               Append(socket, m)[i].kind = "incident" => Append(socket, m)[i].version <= version
    BY <2>3, SocketTypes
  <2>5. Server'
    BY <2>1, <2>2, <2>4 DEF PublishOtherNote, Server
  <2>6. Page'
    BY <2>1 DEF PublishOtherNote, Page
  <2> QED BY <2>5, <2>6
<1>3. CASE \E r \in RunIds : OtherResolve(r)
  <2>1. PICK r \in RunIds : OtherResolve(r)
    BY <1>3
  <2>2. Append(elsewhere, r) \in Seq(RunIds)
    BY AppendProperties DEF Page
  <2>3. Server'
    BY <2>1 DEF OtherResolve, Server
  <2>4. Page'
    BY <2>1, <2>2 DEF OtherResolve, Page
  <2> QED BY <2>3, <2>4
<1>4. CASE SaveIncident
  <2>1. version \in Nat /\ version' = version + 1
    BY <1>4 DEF SaveIncident, Server
  <2>2. /\ \A i \in 1..Len(socket) : socket[i].kind = "incident" => socket[i].version <= version
        /\ \A i \in 1..Len(socket) : socket[i].kind = "incident" => socket[i].version \in Nat
    <3>1. ASSUME NEW i \in 1..Len(socket), socket[i].kind = "incident"
          PROVE  socket[i].version \in Nat
      <4>1. socket[i] \in Messages
        BY ElementOfSeq DEF Server
      <4> QED BY <3>1, <4>1 DEF Messages, NoteMessage, IncidentMessage
    <3> QED BY <3>1 DEF Server
  <2>3. \A i \in 1..Len(socket) : socket[i].kind = "incident" => socket[i].version <= version'
    BY <2>1, <2>2
  <2>4. backfills \in Seq(Refreshes(version'))
    <3>1. \A v \in 0..version : v \in 0..version'
      BY <2>1
    <3>2. Refreshes(version) \subseteq Refreshes(version')
      BY <3>1 DEF Refreshes
    <3>3. backfills \in Seq(Refreshes(version))
      BY DEF Server
    <3> QED BY <3>2, <3>3, SeqMonotonic
  <2>5. Server'
    BY <1>4, <2>1, <2>3, <2>4 DEF SaveIncident, Server
  <2>6. Page'
    BY <1>4 DEF SaveIncident, Page
  <2> QED BY <2>5, <2>6
<1>5. CASE PublishIncident
  <2>1. version \in Nat
    BY DEF Server
  <2>2. PICK m : m = IncidentMessage(version)
    OBVIOUS
  <2>3. m \in Messages /\ m.version <= version
    BY <2>1, <2>2 DEF Messages, IncidentMessage
  <2>4. /\ Append(socket, m) \in Seq(Messages)
        /\ \A i \in 1..Len(Append(socket, m)) :
               Append(socket, m)[i].kind = "incident" => Append(socket, m)[i].version <= version
    BY <2>3, SocketTypes
  <2>5. Server'
    BY <1>5, <2>2, <2>4 DEF PublishIncident, Server
  <2>6. Page'
    BY <1>5 DEF PublishIncident, Page
  <2> QED BY <2>5, <2>6
<1> QED BY <1>1, <1>2, <1>3, <1>4, <1>5

\* The server answers.
LEMMA AnswersTypes ==
    ASSUME Types, NEW k \in DOMAIN requests, Serve(k)
    PROVE  Types'
<1> USE DEF Types, rows, timeline, history
<1>0. /\ requests[k] \in Requests /\ requests # <<>> /\ selected \in RunIds
      /\ requests[k].run \in RunIds
  BY RequestTypes
<1>1. ASSUME NEW q \in Requests, q.kind = requests[k].kind, q.status = "stored" => q.kind = "note",
             requests' = [requests EXCEPT ![k] = q],
             UNCHANGED <<selected, panel, inDoubt, elsewhere>>
      PROVE  Page'
  <2>1. /\ requests' \in Seq(Requests)
        /\ \A i \in 1..Len(requests') : requests'[i].status = "stored" => requests'[i].kind = "note"
    BY <1>1, ChangeTypes
  <2>2. selected' \in RunIds /\ selected' # NoRun
    BY <1>0, <1>1, NoRunAssumption
  <2> QED BY <1>1, <2>1, <2>2 DEF Page
<1>2. CASE ServeRun(k)
  <2>1. PICK q : q = [requests[k] EXCEPT !.notes = notes[requests[k].run],
                                         !.resolved = resolved[requests[k].run],
                                         !.status = "answered"]
    OBVIOUS
  <2>2. q \in Requests /\ q.kind = requests[k].kind /\ q.status = "answered"
    BY <1>0, <2>1 DEF Requests, Server
  <2>3. requests' = [requests EXCEPT ![k] = q]
    BY <1>2, <2>1 DEF ServeRun
  <2>4. Page'
    BY <1>2, <1>1, <2>2, <2>3 DEF ServeRun
  <2>5. Server'
    BY <1>2 DEF ServeRun, Server
  <2> QED BY <2>4, <2>5
<1>3. CASE StoreNote(k)
  <2>1. PICK q : q = [requests[k] EXCEPT !.status = "stored"]
    OBVIOUS
  <2>2. q \in Requests /\ q.kind = requests[k].kind /\ q.kind = "note"
    BY <1>0, <1>3, <2>1 DEF Requests, StoreNote
  <2>3. requests' = [requests EXCEPT ![k] = q]
    BY <1>3, <2>1 DEF StoreNote
  <2>4. Page'
    BY <1>3, <1>1, <2>2, <2>3 DEF StoreNote
  <2>5. Server'
    BY <1>0, <1>3 DEF StoreNote, Server
  <2> QED BY <2>4, <2>5
<1>4. ASSUME Answer(k), UNCHANGED <<selected, panel, inDoubt, elsewhere>>
      PROVE  Page'
  <2>1. PICK q : q = [requests[k] EXCEPT !.status = "answered"]
    OBVIOUS
  <2>2. q \in Requests /\ q.kind = requests[k].kind /\ q.status = "answered"
    BY <1>0, <2>1 DEF Requests
  <2>3. requests' = [requests EXCEPT ![k] = q]
    BY <1>4, <2>1 DEF Answer
  <2> QED BY <1>4, <1>1, <2>2, <2>3
<1>5. CASE PublishNote(k)
  <2>1. PICK m : m = NoteMessage(requests[k].run)
    OBVIOUS
  <2>2. m \in Messages /\ (m.kind = "incident" => m.version <= version)
    BY <1>0, <2>1 DEF Messages, NoteMessage
  <2>3. /\ Append(socket, m) \in Seq(Messages)
        /\ \A i \in 1..Len(Append(socket, m)) :
               Append(socket, m)[i].kind = "incident" => Append(socket, m)[i].version <= version
    BY <2>2, SocketTypes
  <2>4. Server'
    BY <1>5, <2>1, <2>3 DEF PublishNote, Server
  <2> QED BY <1>4, <1>5, <2>4 DEF PublishNote
<1>6. CASE ServeResolve(k)
  <2>1. Server'
    BY <1>0, <1>6 DEF ServeResolve, Server, Requests
  <2> QED BY <1>4, <1>6, <2>1 DEF ServeResolve
<1>7. CASE Refuse(k)
  <2>1. Server'
    BY <1>7 DEF Refuse, Server
  <2> QED BY <1>4, <1>7, <2>1 DEF Refuse
<1> QED BY <1>2, <1>3, <1>5, <1>6, <1>7 DEF Serve

\* The requests that are left, and one for the run that is selected by that.
LEMMA LoadTypes ==
    ASSUME Page, NEW run \in RunIds, NEW rest \in Seq(Requests),
           \A i \in 1..Len(rest) : rest[i].status = "stored" => rest[i].kind = "note",
           LoadRunDetail(run, rest), UNCHANGED <<panel, inDoubt, elsewhere>>
    PROVE  Page'
<1>1. /\ requests' \in Seq(Requests)
      /\ \A i \in 1..Len(requests') : requests'[i].status = "stored" => requests'[i].kind = "note"
  BY AppendTypes DEF LoadRunDetail
<1>2. selected' = run /\ run # NoRun
  BY NoRunAssumption DEF LoadRunDetail
<1> QED BY <1>1, <1>2 DEF Page

\* Clicks and timers.
LEMMA ClicksTypes ==
    ASSUME Types, \/ \E r \in RunIds : Select(r)
                  \/ SubmitNote \/ ToggleResolve \/ Tick
    PROVE  Types'
<1> USE DEF Types, rows, timeline, history
<1>0. /\ requests \in Seq(Requests)
      /\ \A i \in 1..Len(requests) : requests[i].status = "stored" => requests[i].kind = "note"
  BY DEF Page
<1>1. CASE \E r \in RunIds : Select(r)
  <2>1. PICK r \in RunIds : Select(r)
    BY <1>1
  <2>2. PICK rest : rest = requests
    OBVIOUS
  <2>3. Page'
    BY <1>0, <2>1, <2>2, LoadTypes DEF Select
  <2>4. Server'
    BY <2>1 DEF Select, Server
  <2> QED BY <2>3, <2>4
<1>2. ASSUME NEW kind \in {"note", "resolve"}, NEW flag \in BOOLEAN, selected # NoRun,
             requests' = Append(requests, Request(kind, selected, flag)),
             UNCHANGED <<selected, panel, inDoubt, elsewhere>>
      PROVE  Page'
  <2>1. PICK rest, run : rest = requests /\ run = selected
    OBVIOUS
  <2>2. run \in RunIds /\ rest \in Seq(Requests)
    BY <1>0, <1>2, <2>1 DEF Page
  <2>3. /\ Append(rest, Request(kind, run, flag)) \in Seq(Requests)
        /\ \A i \in 1..Len(Append(rest, Request(kind, run, flag))) :
               Append(rest, Request(kind, run, flag))[i].status = "stored" =>
                   Append(rest, Request(kind, run, flag))[i].kind = "note"
    BY <1>0, <2>1, <2>2, AppendTypes
  <2> QED BY <1>2, <2>1, <2>3 DEF Page
<1>3. CASE SubmitNote
  <2>1. Server'
    BY <1>3 DEF SubmitNote, Server
  <2>2. Page'
    BY <1>2, <1>3 DEF SubmitNote
  <2> QED BY <2>1, <2>2
<1>4. CASE ToggleResolve
  <2>1. Server'
    BY <1>4 DEF ToggleResolve, Server
  <2>2. PICK flag : flag = ~panel.resolved
    OBVIOUS
  <2>3. flag \in BOOLEAN
    BY <2>2
  <2>4. Page'
    BY <1>2, <1>4, <2>2, <2>3 DEF ToggleResolve
  <2> QED BY <2>1, <2>4
<1>5. CASE Tick
  <2>1. Server'
    <3>1. Append(backfills, Sent) \in Seq(Refreshes(version))
      <4>1. Sent \in Refreshes(version)
        BY DEF Refreshes
      <4> QED BY <4>1, AppendProperties DEF Server
    <3> QED BY <1>5, <3>1 DEF Tick, Server
  <2>2. Page'
    BY <1>5 DEF Tick, Page
  <2> QED BY <2>1, <2>2
<1> QED BY <1>1, <1>3, <1>4, <1>5

\* Messages and replies.
LEMMA MessagesTypes ==
    ASSUME Types, OnMessage
    PROVE  Types'
<1> USE DEF Types, rows, timeline, history
<1>0. /\ socket # <<>>
      /\ Head(socket) \in Messages
      /\ Head(socket).kind = "incident" => Head(socket).version \in 0..version
      /\ Tail(socket) \in Seq(Messages)
      /\ \A i \in 1..Len(Tail(socket)) :
             Tail(socket)[i].kind = "incident" => Tail(socket)[i].version <= version
  BY SocketTypes DEF OnMessage, OnNote, OnIncident
<1>1. CASE OnNote
  <2>1. Server'
    BY <1>0, <1>1 DEF OnNote, Server
  <2>2. CASE Head(socket).run = selected
    <3>1. PICK run, rest : run = selected /\ rest = requests
      OBVIOUS
    <3>2. run \in RunIds
      BY <1>0, <1>1, <2>2, <3>1 DEF OnNote, Messages, NoteMessage, IncidentMessage
    <3>3. LoadRunDetail(run, rest) /\ UNCHANGED <<panel, inDoubt, elsewhere>>
      BY <1>1, <2>2, <3>1 DEF OnNote
    <3>4. Page'
      BY <3>1, <3>2, <3>3, LoadTypes DEF Page
    <3> QED BY <2>1, <3>4
  <2>3. CASE Head(socket).run # selected
    <3>1. Page'
      BY <1>1, <2>3 DEF OnNote, Page
    <3> QED BY <2>1, <3>1
  <2> QED BY <2>2, <2>3
<1>2. CASE OnIncident
  <2>1. Server'
    BY <1>0, <1>2 DEF OnIncident, Server
  <2>2. Page'
    BY <1>2 DEF OnIncident, Page
  <2> QED BY <2>1, <2>2
<1> QED BY <1>1, <1>2 DEF OnMessage

LEMMA RepliesTypes ==
    ASSUME Types, NEW k \in DOMAIN requests, Reply(k) \/ Fail(k)
    PROVE  Types'
<1> USE DEF Types, rows, timeline, history
<1>0. /\ requests[k] \in Requests /\ requests # <<>> /\ selected \in RunIds
      /\ requests[k].run \in RunIds
  BY RequestTypes
<1>1. \A last \in Int :
          /\ Settled(k, last) \in Seq(Requests)
          /\ \A i \in 1..Len(Settled(k, last)) :
                 Settled(k, last)[i].status = "stored" => Settled(k, last)[i].kind = "note"
  BY SettledTypes
<1>2. k \in Int /\ 1 \in Int /\ Len(requests) + 1 \in Int
  BY LenProperties DEF Page
<1>3. CASE ReplyRun(k)
  <2>1. Server'
    BY <1>3 DEF ReplyRun, Server
  <2>2. Page'
    BY <1>0, <1>1, <1>2, <1>3, NoRunAssumption DEF ReplyRun, Page, Requests
  <2> QED BY <2>1, <2>2
<1>4. CASE ReplyWrite(k)
  <2>1. Server'
    BY <1>4 DEF ReplyWrite, Server
  <2>2. PICK run, rest : run = selected /\ rest = Settled(k, 1)
    OBVIOUS
  <2>3. Page'
    BY <1>0, <1>1, <1>4, <2>2, LoadTypes DEF ReplyWrite
  <2> QED BY <2>1, <2>3
<1>5. CASE Fail(k)
  <2>1. Server'
    BY <1>5 DEF Fail, Server
  <2>2. PICK last \in Int : requests' = Settled(k, last)
    BY <1>0, <1>2, <1>5 DEF Fail, Requests
  <2>3. inDoubt' \in BOOLEAN
    BY <1>5 DEF Fail
  <2>4. Page'
    BY <1>0, <1>1, <1>5, <2>2, <2>3, NoRunAssumption DEF Fail, Page
  <2> QED BY <2>1, <2>4
<1> QED BY <1>3, <1>4, <1>5 DEF Reply

\* The list of incidents.
LEMMA IncidentsTypes ==
    ASSUME Types, NEW k \in DOMAIN backfills,
           ServeIncidents(k) \/ ReplyIncidents(k) \/ FailIncidents(k)
    PROVE  Types'
<1> USE DEF Types, rows, timeline, history
<1>1. Page'
  BY DEF ServeIncidents, ReplyIncidents, FailIncidents, Page
<1>2. version \in 0..version
  BY DEF Server
<1>6. PICK q, R : q = backfills /\ R = Refreshes(version)
  OBVIOUS
<1>7. q \in Seq(R) /\ k \in 1..Len(q) /\ q[k] \in R
  <2>1. q \in Seq(R)
    BY <1>6 DEF Server
  <2>2. k \in 1..Len(q)
    BY <1>6, <2>1, LenProperties
  <2> QED BY <2>1, <2>2, ElementOfSeq
<1>8. RemoveAt(q, k) \in Seq(R)
  BY <1>7, RemoveAtProperties
<1>3. CASE ServeIncidents(k)
  <2>1. Answered(version) \in R
    BY <1>2, <1>6 DEF Refreshes
  <2>2. [q EXCEPT ![k] = Answered(version)] \in Seq(R)
    BY <1>7, <2>1, ExceptSeq
  <2> QED BY <1>1, <1>3, <1>6, <2>2 DEF ServeIncidents, Server
<1>4. CASE ReplyIncidents(k)
  <2>1. q[k].version \in 0..version
    <3>1. 0 \in 0..version
      BY DEF Server
    <3> QED BY <1>6, <1>7, <3>1 DEF Refreshes, Answered, Sent
  <2> QED BY <1>1, <1>4, <1>6, <1>8, <2>1 DEF ReplyIncidents, Server
<1>5. CASE FailIncidents(k)
  BY <1>1, <1>5, <1>6, <1>8 DEF FailIncidents, Server
<1> QED BY <1>3, <1>4, <1>5

LEMMA TypesStep == Types /\ [Next]_vars => Types'
<1> SUFFICES ASSUME Types, [Next]_vars PROVE Types'
  OBVIOUS
<1>1. CASE UNCHANGED vars
  BY <1>1 DEF vars, rows, timeline, history, Types, Server, Page
<1>2. CASE \E k \in DOMAIN requests : Serve(k) \/ Reply(k) \/ Fail(k)
  BY <1>2, AnswersTypes, RepliesTypes
<1>3. CASE \E r \in RunIds : OtherNote(r) \/ PublishOtherNote(r) \/ OtherResolve(r) \/ Select(r)
  BY <1>3, OthersTypes, ClicksTypes
<1>4. CASE Incidents \/ \E k \in DOMAIN backfills : FailIncidents(k)
  BY <1>4, IncidentsTypes DEF Incidents
<1> QED BY <1>1, <1>2, <1>3, <1>4, OthersTypes, ClicksTypes, MessagesTypes DEF Next

-----------------------------------------------------------------------------
(* What a step does to what is still to come *)

\* A step that keeps the selection leaves what was current so: a change of the
\* server's data is followed by a reload.
Keeps ==
    selected \in RunIds =>
        /\ NoteComing' \/ (~NoteComing /\ notes'[selected] = notes[selected])
        /\ \/ (SetElsewhere \/ FlagComing)'
           \/ ~(SetElsewhere \/ FlagComing) /\ resolved'[selected] = resolved[selected]

LEMMA StaysCurrent ==
    ASSUME Keeps, selected \in RunIds, selected' = selected, NEW n, NEW flag, IsCurrent(n, flag)
    PROVE  IsCurrent(n, flag)'
BY DEF Keeps, IsCurrent

\* No request and no reply.
LEMMA QuietPanel ==
    ASSUME Types, PanelInv, UNCHANGED <<requests, selected, panel, inDoubt>>, Keeps
    PROVE  PanelInv'
<1>0. LateFirst /\ LastIsSelected /\ PanelFollows /\ Loads' = Loads
  BY DEF PanelInv, Loads
<1>1. LateFirst'
  BY <1>0 DEF LateFirst
<1>2. ASSUME NEW i \in Loads, ~requests[i].late, \A j \in Loads : j <= i
      PROVE  /\ requests[i].run = selected
             /\ requests[i].status = "answered" => IsCurrent(requests[i].notes, requests[i].resolved)'
  <2>1. /\ requests[i].run = selected
        /\ requests[i].status = "answered" => IsCurrent(requests[i].notes, requests[i].resolved)
    BY <1>0, <1>2 DEF LastIsSelected
  <2>2. selected \in RunIds
    BY <1>2, <2>1, ElementOfSeq DEF Loads, Types, Page, Requests
  <2>3. PICK n, flag : n = requests[i].notes /\ flag = requests[i].resolved
    OBVIOUS
  <2>4. requests[i].status = "answered" => IsCurrent(n, flag)'
    BY <2>1, <2>2, <2>3, StaysCurrent
  <2>5. n = requests'[i].notes /\ flag = requests'[i].resolved
    BY <2>3
  <2> QED BY <2>1, <2>4, <2>5 DEF IsCurrent
<1>3. LastIsSelected'
  BY <1>0, <1>2 DEF LastIsSelected
<1>4. ASSUME \A i \in Loads : requests[i].late, ~inDoubt
      PROVE  panel.run = selected /\ (selected # NoRun => IsCurrent(panel.notes, panel.resolved)')
  <2>1. panel.run = selected /\ (selected # NoRun => IsCurrent(panel.notes, panel.resolved))
    BY <1>0, <1>4 DEF PanelFollows
  <2>2. PICK n, flag : n = panel.notes /\ flag = panel.resolved
    OBVIOUS
  <2>3. selected # NoRun => IsCurrent(n, flag)'
    BY <2>1, <2>2, StaysCurrent DEF Types, Page
  <2>4. n = panel'.notes /\ flag = panel'.resolved
    BY <2>2
  <2> QED BY <2>1, <2>3, <2>4 DEF IsCurrent
<1>5. PanelFollows'
  BY <1>0, <1>4 DEF PanelFollows
<1> QED BY <1>1, <1>3, <1>5 DEF PanelInv

\* A message behind the others hides none of them, nor does handling one that is
\* about another run.
LEMMA SocketKeeps ==
    ASSUME Types, NEW m \in Messages
    PROVE  /\ NoteOnSocket => \E i \in 1..Len(Append(socket, m)) :
                                  Append(socket, m)[i] = NoteMessage(selected)
           /\ \E i \in 1..Len(Append(socket, m)) : Append(socket, m)[i] = m
           /\ socket # <<>> /\ Head(socket) # NoteMessage(selected) /\ NoteOnSocket =>
                  \E i \in 1..Len(Tail(socket)) : Tail(socket)[i] = NoteMessage(selected)
<1>0. socket \in Seq(Messages) /\ Len(socket) \in Nat
  BY LenProperties DEF Types, Server
<1>1. /\ Len(Append(socket, m)) = Len(socket) + 1
      /\ \A i \in 1..Len(socket) : Append(socket, m)[i] = socket[i]
      /\ Append(socket, m)[Len(socket) + 1] = m
  BY <1>0, AppendProperties
<1>2. ASSUME socket # <<>>, Head(socket) # NoteMessage(selected), NoteOnSocket
      PROVE  \E i \in 1..Len(Tail(socket)) : Tail(socket)[i] = NoteMessage(selected)
  <2>1. /\ Head(socket) = socket[1]
        /\ Len(Tail(socket)) = Len(socket) - 1
        /\ \A i \in 1..Len(Tail(socket)) : Tail(socket)[i] = socket[i + 1]
    BY <1>0, <1>2, HeadTailProperties
  <2>2. PICK i \in 1..Len(socket) : socket[i] = NoteMessage(selected)
    BY <1>2 DEF NoteOnSocket
  <2>3. i # 1
    BY <1>2, <2>1, <2>2
  <2>4. i - 1 \in 1..Len(Tail(socket)) /\ (i - 1) + 1 = i
    BY <1>0, <2>1, <2>2, <2>3
  <2> QED BY <2>1, <2>2, <2>4
<1>3. NoteOnSocket => \E i \in 1..Len(Append(socket, m)) : Append(socket, m)[i] = NoteMessage(selected)
  BY <1>0, <1>1 DEF NoteOnSocket
<1>4. Len(socket) + 1 \in 1..Len(Append(socket, m))
  BY <1>0, <1>1
<1> QED BY <1>1, <1>2, <1>3, <1>4

\* A step that changes neither notes nor flags, and handles no note of the
\* selected run.
LEMMA NothingNew ==
    ASSUME UNCHANGED <<notes, resolved, unannounced, requests, elsewhere, selected>>,
           NoteOnSocket => NoteOnSocket'
    PROVE  Keeps
<1>1. /\ NoteStored' <=> NoteStored
      /\ FlagComing' <=> FlagComing
      /\ SetElsewhere' <=> SetElsewhere
  BY DEF NoteStored, FlagComing, SetElsewhere
<1> QED BY <1>1 DEF Keeps, NoteComing

LEMMA OthersPanel ==
    ASSUME Types, PanelInv,
           \/ \E r \in RunIds : OtherNote(r) \/ PublishOtherNote(r) \/ OtherResolve(r)
           \/ SaveIncident \/ PublishIncident
    PROVE  PanelInv'
<1> USE DEF rows, timeline, history
<1>0. /\ notes \in [RunIds -> Nat] /\ unannounced \in [RunIds -> Nat]
      /\ resolved \in [RunIds -> BOOLEAN] /\ elsewhere \in Seq(RunIds)
  BY DEF Types, Server, Page
<1>1. CASE \E r \in RunIds : OtherNote(r)
  <2>1. PICK r \in RunIds : OtherNote(r)
    BY <1>1
  <2>2. /\ UNCHANGED <<requests, selected, panel, inDoubt, socket, resolved, elsewhere>>
        /\ NoteStored' <=> NoteStored
        /\ NoteOnSocket' <=> NoteOnSocket
        /\ FlagComing' <=> FlagComing
        /\ SetElsewhere' <=> SetElsewhere
    BY <2>1 DEF OtherNote, NoteStored, NoteOnSocket, FlagComing, SetElsewhere
  <2>3. ASSUME selected \in RunIds
        PROVE  /\ unannounced'[selected] >= unannounced[selected]
               /\ unannounced'[selected] > 0 \/ notes'[selected] = notes[selected]
    BY <1>0, <2>1, <2>3 DEF OtherNote
  <2>4. ASSUME selected \in RunIds
        PROVE  unannounced[selected] > 0 => unannounced'[selected] > 0
    BY <1>0, <2>1, <2>4 DEF OtherNote
  <2>5. Keeps
    BY <2>2, <2>3, <2>4 DEF Keeps, NoteComing
  <2> QED BY <2>2, <2>5, QuietPanel
<1>2. CASE \E r \in RunIds : PublishOtherNote(r)
  <2>1. PICK r \in RunIds : PublishOtherNote(r)
    BY <1>2
  <2>2. /\ UNCHANGED <<requests, selected, panel, inDoubt, notes, resolved, elsewhere>>
        /\ NoteStored' <=> NoteStored
        /\ FlagComing' <=> FlagComing
        /\ SetElsewhere' <=> SetElsewhere
    BY <2>1 DEF PublishOtherNote, NoteStored, FlagComing, SetElsewhere
  <2>3. PICK m : m = NoteMessage(r)
    OBVIOUS
  <2>4. m \in Messages /\ socket' = Append(socket, m)
    BY <2>1, <2>3 DEF Messages, PublishOtherNote
  <2>5. /\ NoteOnSocket => NoteOnSocket'
        /\ r = selected => NoteOnSocket'
    BY <2>2, <2>3, <2>4, SocketKeeps DEF NoteOnSocket
  <2>6. ASSUME selected \in RunIds, r # selected
        PROVE  unannounced'[selected] = unannounced[selected]
    BY <1>0, <2>1, <2>6 DEF PublishOtherNote
  <2>7. Keeps
    BY <2>2, <2>5, <2>6 DEF Keeps, NoteComing
  <2> QED BY <2>2, <2>7, QuietPanel
<1>3. CASE \E r \in RunIds : OtherResolve(r)
  <2>1. PICK r \in RunIds : OtherResolve(r)
    BY <1>3
  <2>2. /\ UNCHANGED <<requests, selected, panel, inDoubt, notes, unannounced, socket>>
        /\ NoteStored' <=> NoteStored
        /\ NoteOnSocket' <=> NoteOnSocket
        /\ FlagComing' <=> FlagComing
    BY <2>1 DEF OtherResolve, NoteStored, NoteOnSocket, FlagComing
  <2>3. /\ Len(elsewhere') = Len(elsewhere) + 1 /\ Len(elsewhere) \in Nat
        /\ \A i \in 1..Len(elsewhere) : elsewhere'[i] = elsewhere[i]
        /\ elsewhere'[Len(elsewhere) + 1] = r
    BY <1>0, <2>1, AppendProperties, LenProperties DEF OtherResolve
  <2>4. /\ SetElsewhere => SetElsewhere'
        /\ r = selected => SetElsewhere'
    BY <2>2, <2>3 DEF SetElsewhere
  <2>5. ASSUME selected \in RunIds, r # selected
        PROVE  resolved'[selected] = resolved[selected]
    BY <1>0, <2>1, <2>5 DEF OtherResolve
  <2>6. Keeps
    BY <2>2, <2>4, <2>5 DEF Keeps, NoteComing
  <2> QED BY <2>2, <2>6, QuietPanel
<1>4. CASE SaveIncident
  <2>1. UNCHANGED <<requests, selected, panel, inDoubt, notes, resolved, unannounced, elsewhere, socket>>
    BY <1>4 DEF SaveIncident
  <2>2. NoteOnSocket => NoteOnSocket'
    BY <2>1 DEF NoteOnSocket
  <2> QED BY <2>1, <2>2, NothingNew, QuietPanel
<1>5. CASE PublishIncident
  <2>1. UNCHANGED <<requests, selected, panel, inDoubt, notes, resolved, unannounced, elsewhere>>
    BY <1>5 DEF PublishIncident
  <2>2. PICK m : m = IncidentMessage(version)
    OBVIOUS
  <2>3. m \in Messages /\ socket' = Append(socket, m)
    BY <1>5, <2>2 DEF PublishIncident, Messages, Types, Server
  <2>4. NoteOnSocket => NoteOnSocket'
    BY <2>1, <2>3, SocketKeeps DEF NoteOnSocket
  <2> QED BY <2>1, <2>4, NothingNew, QuietPanel
<1> QED BY <1>1, <1>2, <1>3, <1>4, <1>5

\* The list of incidents and its messages do not concern the panel.
LEMMA TimelinePanel ==
    ASSUME Types, PanelInv,
           Incidents \/ (\E k \in DOMAIN backfills : FailIncidents(k)) \/ Tick \/ OnIncident
    PROVE  PanelInv'
<1> USE DEF rows, timeline, history
<1>1. UNCHANGED <<requests, selected, panel, inDoubt, notes, resolved, unannounced, elsewhere>>
  BY DEF Incidents, ServeIncidents, ReplyIncidents, FailIncidents, Tick, OnIncident
<1>2. CASE UNCHANGED socket
  <2>1. NoteOnSocket => NoteOnSocket'
    BY <1>1, <1>2 DEF NoteOnSocket
  <2> QED BY <1>1, <2>1, NothingNew, QuietPanel
<1>3. CASE OnIncident
  <2>1. socket # <<>> /\ Head(socket) # NoteMessage(selected) /\ socket' = Tail(socket)
    BY <1>3 DEF OnIncident, NoteMessage
  <2>2. PICK m : m = Head(socket)
    OBVIOUS
  <2>3. m \in Messages
    BY <2>1, <2>2, HeadTailProperties DEF Types, Server
  <2>4. NoteOnSocket => NoteOnSocket'
    BY <1>1, <2>1, <2>3, SocketKeeps DEF NoteOnSocket
  <2> QED BY <1>1, <2>4, NothingNew, QuietPanel
<1> QED BY <1>2, <1>3 DEF Incidents, ServeIncidents, ReplyIncidents, FailIncidents, Tick

\* The k-th request changes its status, and a run request what it brings.
LEMMA ChangePanel ==
    ASSUME Types, PanelInv, Keeps, UNCHANGED <<selected, panel, inDoubt>>,
           NEW k \in 1..Len(requests), NEW q \in Requests,
           requests' = [requests EXCEPT ![k] = q],
           q.kind = requests[k].kind, q.run = requests[k].run, q.late = requests[k].late,
           q.kind = "run" /\ q.run = selected /\ q.status = "answered" =>
               IsCurrent(q.notes, q.resolved)'
    PROVE  PanelInv'
<1>0. LateFirst /\ LastIsSelected /\ PanelFollows /\ requests \in Seq(Requests)
  BY DEF PanelInv, Types, Page
<1>1. /\ Len(requests') = Len(requests)
      /\ \A i \in 1..Len(requests) : requests'[i] = IF i = k THEN q ELSE requests[i]
  BY <1>0, ExceptSeq
<1>2. /\ Loads' = Loads
      /\ \A i \in Loads : requests'[i].late = requests[i].late /\ requests'[i].run = requests[i].run
  BY <1>1 DEF Loads
<1>3. LateFirst'
  BY <1>0, <1>2 DEF LateFirst
<1>4. ASSUME NEW i \in Loads, ~requests[i].late, \A j \in Loads : j <= i
      PROVE  /\ requests[i].run = selected
             /\ requests'[i].status = "answered" => IsCurrent(requests[i].notes, requests[i].resolved)'
  <2>1. /\ requests[i].run = selected
        /\ requests[i].status = "answered" => IsCurrent(requests[i].notes, requests[i].resolved)
    BY <1>0, <1>4 DEF LastIsSelected
  <2>2. i \in 1..Len(requests) /\ requests[i].kind = "run"
    BY <1>4 DEF Loads
  <2>3. CASE i = k
    <3>1. requests'[i] = q /\ q.kind = "run" /\ q.run = selected
      BY <1>1, <2>1, <2>2, <2>3
    <3>2. requests'[i].status = "answered" => IsCurrent(q.notes, q.resolved)'
      BY <3>1
    <3> QED BY <2>1, <3>1, <3>2 DEF IsCurrent
  <2>4. CASE i # k
    <3>1. requests'[i] = requests[i]
      BY <1>1, <2>2, <2>4
    <3>2. selected \in RunIds
      <4>1. requests[i] \in Requests
        BY <1>0, <2>2, ElementOfSeq
      <4> QED BY <2>1, <4>1 DEF Requests
    <3>3. PICK n, flag : n = requests[i].notes /\ flag = requests[i].resolved
      OBVIOUS
    <3>4. requests[i].status = "answered" => IsCurrent(n, flag)'
      BY <2>1, <3>2, <3>3, StaysCurrent
    <3> QED BY <2>1, <3>1, <3>3, <3>4 DEF IsCurrent
  <2> QED BY <2>3, <2>4
<1>5. LastIsSelected'
  BY <1>2, <1>4 DEF LastIsSelected
<1>6. ASSUME \A i \in Loads : requests[i].late, ~inDoubt
      PROVE  panel.run = selected /\ (selected # NoRun => IsCurrent(panel.notes, panel.resolved)')
  <2>1. panel.run = selected /\ (selected # NoRun => IsCurrent(panel.notes, panel.resolved))
    BY <1>0, <1>6 DEF PanelFollows
  <2>2. PICK n, flag : n = panel.notes /\ flag = panel.resolved
    OBVIOUS
  <2>3. selected # NoRun => IsCurrent(n, flag)'
    BY <2>1, <2>2, StaysCurrent DEF Types, Page
  <2>4. n = panel'.notes /\ flag = panel'.resolved
    BY <2>2
  <2> QED BY <2>1, <2>3, <2>4 DEF IsCurrent
<1>7. PanelFollows'
  BY <1>2, <1>6 DEF PanelFollows
<1> QED BY <1>3, <1>5, <1>7 DEF PanelInv

LEMMA AnswersPanel ==
    ASSUME Types, PanelInv, NEW k \in DOMAIN requests, Serve(k)
    PROVE  PanelInv'
<1> USE DEF rows, timeline, history
<1>0. /\ requests[k] \in Requests /\ requests[k].run \in RunIds /\ selected \in RunIds
      /\ requests \in Seq(Requests) /\ k \in 1..Len(requests)
      /\ notes \in [RunIds -> Nat] /\ resolved \in [RunIds -> BOOLEAN]
      /\ requests[k].status = "stored" => requests[k].kind = "note"
  BY RequestTypes, LenProperties DEF Types, Server, Page
\* Only the k-th request changes, and how that bears on what is still to come.
<1>1. ASSUME NEW q \in Requests, requests' = [requests EXCEPT ![k] = q],
             q.kind = requests[k].kind, q.run = requests[k].run,
             UNCHANGED <<selected, elsewhere>>
      PROVE  /\ NoteStored => \/ NoteStored'
                              \/ /\ requests[k].kind = "note" /\ requests[k].status = "stored"
                                 /\ requests[k].run = selected
             /\ FlagComing => \/ FlagComing'
                              \/ requests[k].kind = "resolve" /\ requests[k].status = "answered"
             /\ q.kind = "note" /\ q.status = "stored" /\ q.run = selected => NoteStored'
             /\ q.kind = "resolve" /\ q.status = "answered" /\ q.run = selected => FlagComing'
             /\ SetElsewhere' <=> SetElsewhere
  <2>1. /\ Len(requests') = Len(requests)
        /\ requests'[k] = q
        /\ \A i \in 1..Len(requests) : i # k => requests'[i] = requests[i]
    BY <1>0, <1>1, ExceptSeq
  <2> QED BY <1>0, <1>1, <2>1 DEF NoteStored, FlagComing, SetElsewhere
<1>2. CASE ServeRun(k)
  <2>1. PICK q : q = [requests[k] EXCEPT !.notes = notes[requests[k].run],
                                         !.resolved = resolved[requests[k].run],
                                         !.status = "answered"]
    OBVIOUS
  <2>2. /\ q \in Requests /\ q.kind = requests[k].kind /\ q.run = requests[k].run
        /\ q.late = requests[k].late /\ q.kind = "run"
        /\ q.notes = notes[q.run] /\ q.resolved = resolved[q.run]
    BY <1>0, <1>2, <2>1 DEF Requests, ServeRun
  <2>3. /\ requests' = [requests EXCEPT ![k] = q]
        /\ UNCHANGED <<selected, panel, inDoubt, elsewhere, notes, resolved, unannounced, socket>>
    BY <1>2, <2>1 DEF ServeRun
  <2>4. NoteOnSocket' <=> NoteOnSocket
    BY <2>3 DEF NoteOnSocket
  <2>5. Keeps
    BY <1>1, <2>2, <2>3, <2>4 DEF Keeps, NoteComing
  <2>6. q.run = selected => IsCurrent(q.notes, q.resolved)'
    BY <2>2, <2>3 DEF IsCurrent
  <2> QED BY <1>0, <2>2, <2>3, <2>5, <2>6, ChangePanel
<1>3. CASE StoreNote(k)
  <2>1. PICK q : q = [requests[k] EXCEPT !.status = "stored"]
    OBVIOUS
  <2>2. /\ q \in Requests /\ q.kind = requests[k].kind /\ q.run = requests[k].run
        /\ q.late = requests[k].late /\ q.kind = "note" /\ q.status = "stored"
    BY <1>0, <1>3, <2>1 DEF Requests, StoreNote
  <2>3. /\ requests' = [requests EXCEPT ![k] = q]
        /\ UNCHANGED <<selected, panel, inDoubt, elsewhere, resolved, unannounced, socket>>
        /\ requests[k].status = "sent"
    BY <1>3, <2>1 DEF StoreNote
  <2>4. NoteOnSocket' <=> NoteOnSocket
    BY <2>3 DEF NoteOnSocket
  <2>5. requests[k].run # selected => notes'[selected] = notes[selected]
    BY <1>0, <1>3 DEF StoreNote
  <2>6. Keeps
    BY <1>1, <2>2, <2>3, <2>4, <2>5 DEF Keeps, NoteComing
  <2> QED BY <1>0, <2>2, <2>3, <2>6, ChangePanel
\* The other three answer and change nothing more of the request.
<1>4. PICK q : q = [requests[k] EXCEPT !.status = "answered"]
  OBVIOUS
<1>5. /\ q \in Requests /\ q.kind = requests[k].kind /\ q.run = requests[k].run
      /\ q.late = requests[k].late /\ q.status = "answered"
  BY <1>0, <1>4 DEF Requests
<1>6. CASE PublishNote(k)
  <2>1. /\ requests' = [requests EXCEPT ![k] = q]
        /\ UNCHANGED <<selected, panel, inDoubt, elsewhere, notes, resolved, unannounced>>
        /\ requests[k].kind = "note"
    BY <1>0, <1>4, <1>6 DEF PublishNote, Answer
  <2>2. PICK m : m = NoteMessage(requests[k].run)
    OBVIOUS
  <2>3. m \in Messages /\ socket' = Append(socket, m)
    BY <1>0, <1>6, <2>2 DEF Messages, PublishNote
  <2>4. /\ NoteOnSocket => NoteOnSocket'
        /\ requests[k].run = selected => NoteOnSocket'
    BY <2>1, <2>2, <2>3, SocketKeeps DEF NoteOnSocket
  <2>5. Keeps
    BY <1>1, <1>5, <2>1, <2>4 DEF Keeps, NoteComing
  <2> QED BY <1>0, <1>5, <2>1, <2>5, ChangePanel
<1>7. CASE ServeResolve(k)
  <2>1. /\ requests' = [requests EXCEPT ![k] = q]
        /\ UNCHANGED <<selected, panel, inDoubt, elsewhere, notes, unannounced, socket>>
        /\ requests[k].kind = "resolve" /\ requests[k].status = "sent"
    BY <1>4, <1>7 DEF ServeResolve, Answer
  <2>2. NoteOnSocket' <=> NoteOnSocket
    BY <2>1 DEF NoteOnSocket
  <2>3. requests[k].run # selected => resolved'[selected] = resolved[selected]
    BY <1>0, <1>7 DEF ServeResolve
  <2>4. Keeps
    BY <1>1, <1>5, <2>1, <2>2, <2>3 DEF Keeps, NoteComing
  <2> QED BY <1>0, <1>5, <2>1, <2>4, ChangePanel
<1>8. CASE Refuse(k)
  <2>1. /\ requests' = [requests EXCEPT ![k] = q]
        /\ UNCHANGED <<selected, panel, inDoubt, elsewhere, notes, resolved, unannounced, socket>>
        /\ requests[k].kind # "run" /\ requests[k].status = "sent"
    BY <1>4, <1>8 DEF Refuse, Answer
  <2>2. NoteOnSocket' <=> NoteOnSocket
    BY <2>1 DEF NoteOnSocket
  <2>3. Keeps
    BY <1>1, <1>5, <2>1, <2>2 DEF Keeps, NoteComing
  <2> QED BY <1>0, <1>5, <2>1, <2>3, ChangePanel
<1> QED BY <1>2, <1>3, <1>6, <1>7, <1>8 DEF Serve

-----------------------------------------------------------------------------
(* Requests that come and go *)

\* Late run requests come first among those of q.
LateComeFirst(q) ==
    \A i, j \in 1..Len(q) :
        i < j /\ q[i].kind = "run" /\ q[j].kind = "run" /\ q[j].late => q[i].late

\* A new request for the run that is selected by that.
LEMMA LoadPanel ==
    ASSUME NEW run \in RunIds, NEW rest \in Seq(Requests), LateComeFirst(rest),
           LoadRunDetail(run, rest)
    PROVE  PanelInv'
<1>1. PICK q : q = Request("run", run, FALSE)
  OBVIOUS
<1>2. q \in Requests /\ q.kind = "run" /\ q.run = run /\ q.late = FALSE /\ q.status = "sent"
  BY <1>1 DEF Request, Requests
<1>3. /\ Len(requests') = Len(rest) + 1 /\ Len(rest) \in Nat
      /\ \A i \in 1..Len(rest) : requests'[i] = rest[i]
      /\ requests'[Len(rest) + 1] = q
      /\ selected' = run
  <2>1. requests' = Append(rest, q) /\ selected' = run
    BY <1>1 DEF LoadRunDetail
  <2>2. /\ Len(Append(rest, q)) = Len(rest) + 1 /\ Len(rest) \in Nat
        /\ \A i \in 1..Len(rest) : Append(rest, q)[i] = rest[i]
        /\ Append(rest, q)[Len(rest) + 1] = q
    BY <1>2, AppendProperties, LenProperties
  <2> QED BY <2>1, <2>2
<1>4. /\ Len(rest) + 1 \in Loads'
      /\ \A i \in Loads' : i \in 1..(Len(rest) + 1) /\ requests'[i].kind = "run"
  BY <1>2, <1>3 DEF Loads
<1>5. LateFirst'
  <2>1. ASSUME NEW i \in Loads', NEW j \in Loads', i < j, requests'[j].late
        PROVE  requests'[i].late
    <3>1. j # Len(rest) + 1
      BY <1>2, <1>3, <2>1
    <3>2. i \in 1..Len(rest) /\ j \in 1..Len(rest)
      BY <1>3, <1>4, <2>1, <3>1
    <3> QED BY <1>3, <1>4, <2>1, <3>2 DEF LateComeFirst
  <2> QED BY <2>1 DEF LateFirst
<1>6. LastIsSelected'
  <2>1. ASSUME NEW i \in Loads', \A j \in Loads' : j <= i
        PROVE  requests'[i] = q
    <3>1. i = Len(rest) + 1
      BY <1>3, <1>4, <2>1
    <3> QED BY <1>3, <3>1
  <2> QED BY <1>2, <1>3, <2>1 DEF LastIsSelected
<1>7. PanelFollows'
  BY <1>2, <1>3, <1>4 DEF PanelFollows
<1> QED BY <1>5, <1>6, <1>7 DEF PanelInv

\* A write is sent.
LEMMA AppendPanel ==
    ASSUME Types, PanelInv, NEW q \in Requests, q.kind # "run", q.status = "sent",
           requests' = Append(requests, q),
           UNCHANGED <<selected, panel, inDoubt, notes, resolved, unannounced, elsewhere, socket>>
    PROVE  PanelInv'
<1>0. LateFirst /\ LastIsSelected /\ PanelFollows /\ requests \in Seq(Requests)
  BY DEF PanelInv, Types, Page
<1>1. /\ Len(requests') = Len(requests) + 1 /\ Len(requests) \in Nat
      /\ \A i \in 1..Len(requests) : requests'[i] = requests[i]
      /\ requests'[Len(requests) + 1] = q
  BY <1>0, AppendProperties, LenProperties
<1>2. Loads' = Loads /\ \A i \in Loads : requests'[i] = requests[i]
  BY <1>1 DEF Loads
<1>3. /\ NoteStored' <=> NoteStored
      /\ FlagComing' <=> FlagComing
      /\ NoteOnSocket' <=> NoteOnSocket
      /\ SetElsewhere' <=> SetElsewhere
  BY <1>1 DEF NoteStored, FlagComing, NoteOnSocket, SetElsewhere
<1>4. LateFirst'
  BY <1>0, <1>2 DEF LateFirst
<1>5. LastIsSelected'
  BY <1>0, <1>2, <1>3 DEF LastIsSelected, IsCurrent, NoteComing
<1>6. PanelFollows'
  BY <1>0, <1>2, <1>3 DEF PanelFollows, IsCurrent, NoteComing
<1> QED BY <1>4, <1>5, <1>6 DEF PanelInv

\* What is left when k has settled, request by request.
LEMMA SettledOrder ==
    ASSUME Types, LateFirst, NEW k \in DOMAIN requests, NEW last \in Int
    PROVE  LET q == Settled(k, last) IN
           /\ k \in 1..Len(requests)
           /\ q \in Seq(Requests)
           /\ Len(requests) \in Nat /\ Len(q) = Len(requests) - 1
           /\ \A i \in 1..Len(q) :
                  /\ Was(k, i) \in 1..Len(requests) /\ Was(k, i) # k
                  /\ q[i].kind = requests[Was(k, i)].kind
                  /\ q[i].run = requests[Was(k, i)].run
                  /\ q[i].status = requests[Was(k, i)].status
                  /\ q[i].notes = requests[Was(k, i)].notes
                  /\ q[i].resolved = requests[Was(k, i)].resolved
                  /\ q[i].kind = "run" =>
                         (q[i].late <=> requests[Was(k, i)].late \/ Was(k, i) < last)
                  /\ q[i].kind # "run" => (q[i].late <=> requests[Was(k, i)].late)
           /\ \A j \in 1..Len(requests) : j # k => \E i \in 1..Len(q) : Was(k, i) = j
           /\ LateComeFirst(q)
<1>0. /\ requests \in Seq(Requests) /\ DOMAIN requests = 1..Len(requests) /\ Len(requests) \in Nat
      /\ \A i \in 1..Len(requests) : requests[i] \in Requests
      /\ k \in 1..Len(requests)
  BY LenProperties, ElementOfSeq DEF Types, Page
<1>1. PICK q : q = Settled(k, last)
  OBVIOUS
<1>2. /\ q \in Seq(Requests)
      /\ Len(q) = Len(requests) - 1
      /\ \A i \in 1..(Len(requests) - 1) :
             /\ Was(k, i) \in 1..Len(requests)
             /\ q[i] = [requests[Was(k, i)] EXCEPT
                           !.late = @ \/ (requests[Was(k, i)].kind = "run" /\ Was(k, i) < last)]
  <2>1. /\ Settled(k, last) \in Seq(Requests)
        /\ Len(Settled(k, last)) = Len(requests) - 1
        /\ \A i \in 1..(Len(requests) - 1) :
               /\ Was(k, i) \in 1..Len(requests)
               /\ Settled(k, last)[i] =
                      [requests[Was(k, i)] EXCEPT
                          !.late = @ \/ (requests[Was(k, i)].kind = "run" /\ Was(k, i) < last)]
    BY <1>0, SettledProperties
  <2> QED BY ONLY <1>1, <2>1
<1>3. ASSUME NEW i \in 1..Len(q)
      PROVE  /\ Was(k, i) \in 1..Len(requests) /\ Was(k, i) # k
             /\ q[i].kind = requests[Was(k, i)].kind
             /\ q[i].run = requests[Was(k, i)].run
             /\ q[i].status = requests[Was(k, i)].status
             /\ q[i].notes = requests[Was(k, i)].notes
             /\ q[i].resolved = requests[Was(k, i)].resolved
             /\ q[i].kind = "run" =>
                    (q[i].late <=> requests[Was(k, i)].late \/ Was(k, i) < last)
             /\ q[i].kind # "run" => (q[i].late <=> requests[Was(k, i)].late)
  <2>1. i \in 1..(Len(requests) - 1) /\ Was(k, i) \in 1..Len(requests)
    BY <1>2, <1>3
  <2>2. PICK p : p = requests[Was(k, i)]
    OBVIOUS
  <2>3. p \in Requests /\ q[i] = [p EXCEPT !.late = @ \/ (p.kind = "run" /\ Was(k, i) < last)]
    BY <1>0, <1>2, <2>1, <2>2
  <2>4. Was(k, i) # k
    BY <1>0, <2>1 DEF Was
  <2> QED BY <2>1, <2>2, <2>3, <2>4 DEF Requests
<1>4. ASSUME NEW j \in 1..Len(requests), j # k
      PROVE  \E i \in 1..Len(q) : Was(k, i) = j
  <2>1. CASE j < k
    BY <1>0, <1>2, <1>4, <2>1 DEF Was
  <2>2. CASE ~(j < k)
    <3>1. j - 1 \in 1..Len(q) /\ ~(j - 1 < k) /\ (j - 1) + 1 = j
      BY <1>0, <1>2, <1>4, <2>2
    <3> QED BY <3>1 DEF Was
  <2> QED BY <2>1, <2>2
<1>5. LateComeFirst(q)
  <2>1. ASSUME NEW i \in 1..Len(q), NEW j \in 1..Len(q), i < j,
               q[i].kind = "run", q[j].kind = "run", q[j].late
        PROVE  q[i].late
    <3>1. Was(k, i) < Was(k, j)
      BY <1>0, <1>2, <2>1 DEF Was
    <3>2. Was(k, i) \in Loads /\ Was(k, j) \in Loads
      BY <1>3, <2>1 DEF Loads
    <3>3. requests[Was(k, j)].late \/ Was(k, j) < last
      BY <1>3, <2>1
    <3>4. requests[Was(k, i)].late \/ Was(k, i) < last
      <4>1. CASE requests[Was(k, j)].late
        BY <3>1, <3>2, <4>1 DEF LateFirst
      <4>2. CASE Was(k, j) < last
        BY <1>3, <3>1, <4>2
      <4> QED BY <3>3, <4>1, <4>2
    <3> QED BY <1>3, <2>1, <3>4
  <2> QED BY <2>1 DEF LateComeFirst
<1> QED BY <1>0, <1>1, <1>2, <1>3, <1>4, <1>5

\* The requests in flight are in that order already.
LEMMA RequestsInOrder ==
    ASSUME Types, LateFirst
    PROVE  LateComeFirst(requests)
BY DEF LateFirst, LateComeFirst, Loads

\* Clicks, and the message of a note.
LEMMA ClicksPanel ==
    ASSUME Types, PanelInv,
           (\E r \in RunIds : Select(r)) \/ SubmitNote \/ ToggleResolve \/ OnNote
    PROVE  PanelInv'
<1> USE DEF rows, timeline, history
<1>0. PICK rest : rest = requests
  OBVIOUS
<1>1. rest \in Seq(Requests) /\ LateComeFirst(rest)
  BY <1>0, RequestsInOrder DEF Types, Page, PanelInv
<1>2. CASE \E r \in RunIds : Select(r)
  <2>1. PICK r \in RunIds : LoadRunDetail(r, rest)
    BY <1>0, <1>2 DEF Select
  <2> QED BY <1>1, <2>1, LoadPanel
<1>3. CASE SubmitNote
  <2>1. PICK q : q = Request("note", selected, FALSE)
    OBVIOUS
  <2>2. q \in Requests /\ q.kind # "run" /\ q.status = "sent"
    BY <1>3, <2>1 DEF SubmitNote, Request, Requests, Types, Page
  <2> QED BY <1>3, <2>1, <2>2, AppendPanel DEF SubmitNote
<1>4. CASE ToggleResolve
  <2>1. PICK q : q = Request("resolve", selected, ~panel.resolved)
    OBVIOUS
  <2>2. q \in Requests /\ q.kind # "run" /\ q.status = "sent"
    BY <1>4, <2>1 DEF ToggleResolve, Request, Requests, Types, Page
  <2> QED BY <1>4, <2>1, <2>2, AppendPanel DEF ToggleResolve
<1>5. CASE OnNote
  <2>0. socket # <<>> /\ socket' = Tail(socket) /\ Head(socket).kind = "note_added"
    BY <1>5 DEF OnNote
  <2>1. PICK m : m = Head(socket)
    OBVIOUS
  <2>2. m \in Messages /\ m.kind = "note_added"
    BY <2>0, <2>1, HeadTailProperties DEF Types, Server
  <2>3. PICK r \in RunIds : m = NoteMessage(r)
    BY <2>2 DEF Messages, IncidentMessage
  <2>4. m.run = r
    BY <2>3 DEF NoteMessage
  <2>5. CASE r = selected
    <3>1. LoadRunDetail(r, rest)
      BY <1>0, <1>5, <2>1, <2>4, <2>5 DEF OnNote
    <3> QED BY <1>1, <3>1, LoadPanel
  <2>6. CASE r # selected
    <3>1. UNCHANGED <<requests, selected, panel, inDoubt, notes, resolved, unannounced, elsewhere>>
      BY <1>5, <2>1, <2>4, <2>6 DEF OnNote
    <3>2. m # NoteMessage(selected)
      BY <2>4, <2>6 DEF NoteMessage
    <3>3. NoteOnSocket => NoteOnSocket'
      BY <2>0, <2>1, <2>2, <3>1, <3>2, SocketKeeps DEF NoteOnSocket
    <3> QED BY <3>1, <3>3, NothingNew, QuietPanel
  <2> QED BY <2>5, <2>6
<1> QED BY <1>2, <1>3, <1>4, <1>5

\* The requests that are left when k has settled bring what they did before.
LEMMA StillToCome ==
    ASSUME NEW k, NEW q, requests' = q, selected' = selected,
           \A i \in 1..Len(q) :
               /\ Was(k, i) \in 1..Len(requests)
               /\ q[i].kind = requests[Was(k, i)].kind
               /\ q[i].run = requests[Was(k, i)].run
               /\ q[i].status = requests[Was(k, i)].status,
           \A j \in 1..Len(requests) : j # k => \E i \in 1..Len(q) : Was(k, i) = j,
           ~(requests[k].kind = "note" /\ requests[k].status = "stored"),
           requests[k].kind # "resolve"
    PROVE  (NoteStored' <=> NoteStored) /\ (FlagComing' <=> FlagComing)
<1>1. ASSUME NEW kind \in {"note", "resolve"}, NEW status \in {"stored", "answered"},
             ~(requests[k].kind = kind /\ requests[k].status = status)
      PROVE  (\E i \in 1..Len(q) : q[i].kind = kind /\ q[i].status = status /\ q[i].run = selected)
                 <=> \E j \in 1..Len(requests) : /\ requests[j].kind = kind
                                                 /\ requests[j].status = status
                                                 /\ requests[j].run = selected
  <2>1. ASSUME NEW i \in 1..Len(q), q[i].kind = kind, q[i].status = status, q[i].run = selected
        PROVE  \E j \in 1..Len(requests) : /\ requests[j].kind = kind
                                           /\ requests[j].status = status
                                           /\ requests[j].run = selected
    <3>1. PICK j : j = Was(k, i)
      OBVIOUS
    <3> QED BY <2>1, <3>1
  <2>2. ASSUME NEW j \in 1..Len(requests), requests[j].kind = kind,
               requests[j].status = status, requests[j].run = selected
        PROVE  \E i \in 1..Len(q) : q[i].kind = kind /\ q[i].status = status /\ q[i].run = selected
    <3>1. PICK i \in 1..Len(q) : Was(k, i) = j
      BY <1>1, <2>2
    <3> QED BY <2>2, <3>1
  <2> QED BY <2>1, <2>2
<1>2. NoteStored' <=> NoteStored
  BY <1>1 DEF NoteStored
<1>3. FlagComing' <=> FlagComing
  BY <1>1 DEF FlagComing
<1> QED BY <1>2, <1>3

\* A request for a run, answered or failed: those issued before it are late from
\* now on, and the panel is its run's if it was not late itself.
LEMMA SettlePanel ==
    ASSUME Types, PanelInv, NEW k \in DOMAIN requests, requests[k].kind = "run",
           requests' = Settled(k, k),
           UNCHANGED <<selected, notes, resolved, unannounced, socket, elsewhere>>,
           \/ /\ requests[k].status = "answered"
              /\ panel' = [run |-> requests[k].run, notes |-> requests[k].notes,
                           resolved |-> requests[k].resolved]
              /\ inDoubt' = requests[k].late
           \/ panel' = panel /\ inDoubt' = (inDoubt \/ ~requests[k].late)
    PROVE  PanelInv'
<1>0. LateFirst /\ LastIsSelected /\ PanelFollows
  BY DEF PanelInv
<1>1. k \in Int /\ k \in 1..Len(requests) /\ requests[k] \in Requests
  BY RequestTypes, LenProperties DEF Types, Page
<1>2. PICK q : q = Settled(k, k)
  OBVIOUS
<1>3. /\ q \in Seq(Requests)
      /\ Len(requests) \in Nat /\ Len(q) = Len(requests) - 1
      /\ \A i \in 1..Len(q) :
             /\ Was(k, i) \in 1..Len(requests) /\ Was(k, i) # k
             /\ q[i].kind = requests[Was(k, i)].kind
             /\ q[i].run = requests[Was(k, i)].run
             /\ q[i].status = requests[Was(k, i)].status
             /\ q[i].notes = requests[Was(k, i)].notes
             /\ q[i].resolved = requests[Was(k, i)].resolved
             /\ q[i].kind = "run" =>
                    (q[i].late <=> requests[Was(k, i)].late \/ Was(k, i) < k)
      /\ \A j \in 1..Len(requests) : j # k => \E i \in 1..Len(q) : Was(k, i) = j
      /\ LateComeFirst(q)
  <2>1. LET r == Settled(k, k) IN
        /\ k \in 1..Len(requests)
        /\ r \in Seq(Requests)
        /\ Len(requests) \in Nat /\ Len(r) = Len(requests) - 1
        /\ \A i \in 1..Len(r) :
               /\ Was(k, i) \in 1..Len(requests) /\ Was(k, i) # k
               /\ r[i].kind = requests[Was(k, i)].kind
               /\ r[i].run = requests[Was(k, i)].run
               /\ r[i].status = requests[Was(k, i)].status
               /\ r[i].notes = requests[Was(k, i)].notes
               /\ r[i].resolved = requests[Was(k, i)].resolved
               /\ r[i].kind = "run" =>
                      (r[i].late <=> requests[Was(k, i)].late \/ Was(k, i) < k)
        /\ \A j \in 1..Len(requests) : j # k => \E i \in 1..Len(r) : Was(k, i) = j
        /\ LateComeFirst(r)
    <3>1. k \in Int
      BY <1>0, <1>1
    <3>2. Types /\ LateFirst /\ k \in DOMAIN requests
      BY <1>0, <1>1
    <3> QED BY ONLY <3>1, <3>2, SettledOrder, ZenonT(30)
  <2> QED BY ONLY <1>2, <2>1
<1>4. requests' = q
  BY <1>2
<1>5. /\ NoteStored' <=> NoteStored
      /\ FlagComing' <=> FlagComing
      /\ NoteOnSocket' <=> NoteOnSocket
      /\ SetElsewhere' <=> SetElsewhere
  <2>1. /\ NoteStored' <=> NoteStored
        /\ FlagComing' <=> FlagComing
    <3>1. /\ \A i \in 1..Len(q) :
                 /\ Was(k, i) \in 1..Len(requests)
                 /\ q[i].kind = requests[Was(k, i)].kind
                 /\ q[i].run = requests[Was(k, i)].run
                 /\ q[i].status = requests[Was(k, i)].status
          /\ \A j \in 1..Len(requests) : j # k => \E i \in 1..Len(q) : Was(k, i) = j
      BY <1>3
    <3>2. /\ requests' = q /\ selected' = selected
          /\ ~(requests[k].kind = "note" /\ requests[k].status = "stored")
          /\ requests[k].kind # "resolve"
      BY <1>4
    <3> QED BY ONLY <3>1, <3>2, StillToCome
  <2> QED BY <2>1 DEF NoteOnSocket, SetElsewhere
<1>6. \A i \in Loads' : i \in 1..Len(q) /\ q[i].kind = "run" /\ Was(k, i) \in Loads
  BY <1>3, <1>4 DEF Loads
<1>7. LateFirst'
  BY <1>3, <1>4, <1>6 DEF LateFirst, LateComeFirst
<1>8. ASSUME NEW n, NEW flag, IsCurrent(n, flag) PROVE IsCurrent(n, flag)'
  BY <1>5, <1>8 DEF IsCurrent, NoteComing
<1>9. LastIsSelected'
  <2>1. ASSUME NEW i \in Loads', ~q[i].late, \A j \in Loads' : j <= i
        PROVE  q[i].run = selected /\ (q[i].status = "answered" => IsCurrent(q[i].notes, q[i].resolved)')
    <3>1. ~requests[Was(k, i)].late /\ ~(Was(k, i) < k) /\ Was(k, i) # k
      BY <1>3, <1>6, <2>1
    <3>2. ASSUME NEW j \in Loads PROVE j <= Was(k, i)
      <4>1. CASE j = k
        BY <1>1, <1>3, <1>6, <2>1, <3>1, <4>1
      <4>2. CASE j # k
        <5>1. PICK h \in 1..Len(q) : Was(k, h) = j
          BY <1>3, <3>2, <4>2 DEF Loads
        <5>2. h \in Loads'
          BY <1>3, <1>4, <3>2, <5>1 DEF Loads
        <5>3. h <= i
          BY <2>1, <5>2
        <5> QED BY <1>1, <1>3, <1>6, <2>1, <5>1, <5>3 DEF Was
      <4> QED BY <4>1, <4>2
    <3>3. PICK p : p = requests[Was(k, i)]
      OBVIOUS
    <3>4. /\ p.run = selected
          /\ p.status = "answered" => IsCurrent(p.notes, p.resolved)
      BY <1>0, <1>6, <2>1, <3>1, <3>2, <3>3 DEF LastIsSelected
    <3>5. p.status = "answered" => IsCurrent(p.notes, p.resolved)'
      BY <1>8, <3>4
    <3>6. /\ q[i].run = p.run /\ q[i].status = p.status
          /\ q[i].notes = p.notes /\ q[i].resolved = p.resolved
      BY <1>3, <1>6, <2>1, <3>3
    <3> QED BY <3>4, <3>5, <3>6
  <2> QED BY <1>4, <2>1 DEF LastIsSelected
\* If no request that is not late remains, k was the last, or late itself.
<1>10. ASSUME \A i \in Loads' : q[i].late
       PROVE  \A j \in Loads : j > k => requests[j].late
  <2>1. ASSUME NEW j \in Loads, j > k PROVE requests[j].late
    <3>1. PICK i \in 1..Len(q) : Was(k, i) = j
      BY <1>1, <1>3, <2>1 DEF Loads
    <3>2. i \in Loads'
      BY <1>3, <1>4, <2>1, <3>1 DEF Loads
    <3> QED BY <1>1, <1>3, <1>6, <1>10, <2>1, <3>1, <3>2 DEF Loads
  <2> QED BY <2>1
<1>11. k \in Loads
  BY <1>1 DEF Loads
<1>12. ASSUME \A i \in Loads' : q[i].late, ~inDoubt'
       PROVE  panel'.run = selected /\ (selected # NoRun => IsCurrent(panel.notes, panel.resolved)')
  <2>1. CASE /\ requests[k].status = "answered"
             /\ panel' = [run |-> requests[k].run, notes |-> requests[k].notes,
                          resolved |-> requests[k].resolved]
             /\ inDoubt' = requests[k].late
    <3>1. ~requests[k].late
      BY <1>12, <2>1
    <3>2. ASSUME NEW j \in Loads PROVE j <= k
      <4>1. ASSUME j > k PROVE FALSE
        <5>1. requests[j].late
          BY <1>10, <1>12, <3>2, <4>1
        <5> QED BY <1>0, <1>11, <3>1, <3>2, <4>1, <5>1 DEF LateFirst
      <4> QED BY <1>1, <3>2, <4>1 DEF Loads
    <3>3. PICK p : p = requests[k]
      OBVIOUS
    <3>4. p.run = selected /\ IsCurrent(p.notes, p.resolved)
      BY <1>0, <1>11, <2>1, <3>1, <3>2, <3>3 DEF LastIsSelected
    <3>5. IsCurrent(p.notes, p.resolved)'
      BY <1>8, <3>4
    <3>6. panel'.run = p.run /\ panel'.notes = p.notes /\ panel'.resolved = p.resolved
      BY <2>1, <3>3
    <3> QED BY <3>4, <3>5, <3>6 DEF IsCurrent
  <2>2. CASE panel' = panel /\ inDoubt' = (inDoubt \/ ~requests[k].late)
    <3>1. requests[k].late /\ ~inDoubt
      BY <1>12, <2>2
    <3>2. \A j \in Loads : requests[j].late
      <4>1. ASSUME NEW j \in Loads PROVE requests[j].late
        <5>1. CASE j < k
          BY <1>0, <1>11, <3>1, <4>1, <5>1 DEF LateFirst
        <5>2. CASE j = k
          BY <3>1, <5>2
        <5>3. CASE j > k
          BY <1>10, <1>12, <4>1, <5>3
        <5>4. j \in Int
          BY <4>1 DEF Loads
        <5> QED BY <1>1, <5>1, <5>2, <5>3, <5>4
      <4> QED BY <4>1
    <3>3. PICK n, flag : n = panel.notes /\ flag = panel.resolved
      OBVIOUS
    <3>4. panel.run = selected /\ (selected # NoRun => IsCurrent(n, flag))
      BY <1>0, <3>1, <3>2, <3>3 DEF PanelFollows
    <3>5. selected # NoRun => IsCurrent(n, flag)'
      BY <1>8, <3>4
    <3>6. n = panel'.notes /\ flag = panel'.resolved
      BY <2>2, <3>3
    <3> QED BY <2>2, <3>4, <3>5, <3>6 DEF IsCurrent
  <2> QED BY <2>1, <2>2
<1>13. PanelFollows'
  BY <1>4, <1>12 DEF PanelFollows
<1> QED BY <1>7, <1>9, <1>13 DEF PanelInv

\* A note that fails leaves the other requests as they are.
LEMMA FailedNotePanel ==
    ASSUME Types, PanelInv, NEW k \in DOMAIN requests, requests[k].kind = "note",
           requests[k].status # "stored", requests' = Settled(k, 1),
           UNCHANGED <<selected, panel, inDoubt, notes, resolved, unannounced, socket, elsewhere>>
    PROVE  PanelInv'
<1>0. LateFirst /\ LastIsSelected /\ PanelFollows
  BY DEF PanelInv
<1>1. PICK q : q = Settled(k, 1)
  OBVIOUS
<1>2. /\ k \in 1..Len(requests)
      /\ Len(requests) \in Nat /\ Len(q) = Len(requests) - 1
      /\ \A i \in 1..Len(q) :
             /\ Was(k, i) \in 1..Len(requests) /\ Was(k, i) # k
             /\ q[i].kind = requests[Was(k, i)].kind
             /\ q[i].run = requests[Was(k, i)].run
             /\ q[i].status = requests[Was(k, i)].status
             /\ q[i].notes = requests[Was(k, i)].notes
             /\ q[i].resolved = requests[Was(k, i)].resolved
             /\ q[i].kind = "run" =>
                    (q[i].late <=> requests[Was(k, i)].late \/ Was(k, i) < 1)
      /\ \A j \in 1..Len(requests) : j # k => \E i \in 1..Len(q) : Was(k, i) = j
      /\ LateComeFirst(q)
  <2>1. 1 \in Int
    OBVIOUS
  <2> QED BY <1>0, <1>1, <2>1, SettledOrder
<1>3. requests' = q
  BY <1>1
<1>4. (NoteStored' <=> NoteStored) /\ (FlagComing' <=> FlagComing)
  BY <1>2, <1>3, StillToCome
<1>5. ASSUME NEW n, NEW flag, IsCurrent(n, flag) PROVE IsCurrent(n, flag)'
  BY <1>4, <1>5 DEF IsCurrent, NoteComing, NoteOnSocket, SetElsewhere
<1>6. ASSUME NEW i \in Loads'
      PROVE  /\ i \in 1..Len(q) /\ q[i].kind = "run" /\ Was(k, i) \in Loads
             /\ q[i].late <=> requests[Was(k, i)].late
  <2>1. i \in 1..Len(q) /\ q[i].kind = "run"
    BY <1>3, <1>6 DEF Loads
  <2>2. Was(k, i) \in 1..Len(requests) /\ ~(Was(k, i) < 1)
    BY <1>2, <2>1
  <2> QED BY <1>2, <2>1, <2>2 DEF Loads
<1>7. ASSUME NEW j \in Loads
      PROVE  \E i \in Loads' : Was(k, i) = j
  <2>1. PICK i \in 1..Len(q) : Was(k, i) = j
    BY <1>2, <1>7 DEF Loads
  <2> QED BY <1>2, <1>3, <1>7, <2>1 DEF Loads
<1>8. LateFirst'
  BY <1>2, <1>3, <1>6 DEF LateFirst, LateComeFirst
<1>9. LastIsSelected'
  <2>1. ASSUME NEW i \in Loads', ~q[i].late, \A j \in Loads' : j <= i
        PROVE  q[i].run = selected /\ (q[i].status = "answered" => IsCurrent(q[i].notes, q[i].resolved)')
    <3>1. ASSUME NEW j \in Loads PROVE j <= Was(k, i)
      <4>1. PICK h \in Loads' : Was(k, h) = j
        BY <1>7, <3>1
      <4>2. h <= i /\ h \in 1..Len(q) /\ i \in 1..Len(q)
        BY <1>6, <2>1, <4>1
      <4> QED BY <1>2, <4>1, <4>2 DEF Was
    <3>2. PICK p : p = requests[Was(k, i)]
      OBVIOUS
    <3>3. p.run = selected /\ (p.status = "answered" => IsCurrent(p.notes, p.resolved))
      BY <1>0, <1>6, <2>1, <3>1, <3>2 DEF LastIsSelected
    <3>4. p.status = "answered" => IsCurrent(p.notes, p.resolved)'
      BY <1>5, <3>3
    <3>5. /\ q[i].run = p.run /\ q[i].status = p.status
          /\ q[i].notes = p.notes /\ q[i].resolved = p.resolved
      BY <1>2, <1>6, <2>1, <3>2
    <3> QED BY <3>3, <3>4, <3>5
  <2> QED BY <1>3, <2>1 DEF LastIsSelected
<1>10. ASSUME \A i \in Loads' : q[i].late, ~inDoubt
       PROVE  panel.run = selected /\ (selected # NoRun => IsCurrent(panel.notes, panel.resolved)')
  <2>1. \A j \in Loads : requests[j].late
    BY <1>6, <1>7, <1>10
  <2>2. PICK n, flag : n = panel.notes /\ flag = panel.resolved
    OBVIOUS
  <2>3. panel.run = selected /\ (selected # NoRun => IsCurrent(n, flag))
    BY <1>0, <1>10, <2>1, <2>2 DEF PanelFollows
  <2>4. selected # NoRun => IsCurrent(n, flag)'
    BY <1>5, <2>3
  <2>5. n = panel'.notes /\ flag = panel'.resolved
    BY <2>2
  <2> QED BY <2>3, <2>4, <2>5 DEF IsCurrent
<1>11. PanelFollows'
  BY <1>3, <1>10 DEF PanelFollows
<1> QED BY <1>8, <1>9, <1>11 DEF PanelInv

\* A change of a flag that fails leaves it open what the panel shows.
LEMMA FailedFlagPanel ==
    ASSUME Types, PanelInv, NEW k \in DOMAIN requests, requests' = Settled(k, Len(requests) + 1),
           inDoubt'
    PROVE  PanelInv'
<1>0. LateFirst /\ Len(requests) + 1 \in Int
  BY LenProperties DEF PanelInv, Types, Page
<1>1. PICK q, last : q = Settled(k, last) /\ last = Len(requests) + 1
  OBVIOUS
<1>2. /\ Len(requests) \in Nat
      /\ \A i \in 1..Len(q) :
             /\ Was(k, i) \in 1..Len(requests)
             /\ q[i].kind = "run" => (q[i].late <=> requests[Was(k, i)].late \/ Was(k, i) < last)
      /\ LateComeFirst(q)
  BY <1>0, <1>1, SettledOrder
<1>3. requests' = q
  BY <1>1
<1>4. ASSUME NEW i \in Loads' PROVE i \in 1..Len(q) /\ q[i].kind = "run" /\ q[i].late
  <2>1. i \in 1..Len(q) /\ q[i].kind = "run"
    BY <1>3, <1>4 DEF Loads
  <2>2. Was(k, i) \in 1..Len(requests) /\ Was(k, i) < last
    BY <1>1, <1>2, <2>1
  <2> QED BY <1>2, <2>1, <2>2
<1>5. LateFirst'
  BY <1>3, <1>4 DEF LateFirst
<1>6. LastIsSelected'
  BY <1>3, <1>4 DEF LastIsSelected
<1>7. PanelFollows'
  BY DEF PanelFollows
<1> QED BY <1>5, <1>6, <1>7 DEF PanelInv

LEMMA RepliesPanel ==
    ASSUME Types, PanelInv, NEW k \in DOMAIN requests, Reply(k) \/ Fail(k)
    PROVE  PanelInv'
<1> USE DEF rows, timeline, history
<1>0. LateFirst /\ requests[k] \in Requests /\ selected \in RunIds
  BY RequestTypes DEF PanelInv
<1>1. CASE ReplyRun(k)
  BY <1>1, SettlePanel DEF ReplyRun
<1>2. CASE ReplyWrite(k)
  <2>1. PICK q, run : q = Settled(k, 1) /\ run = selected
    OBVIOUS
  <2>2. 1 \in Int
    OBVIOUS
  <2>3. q \in Seq(Requests) /\ LateComeFirst(q)
    BY <1>0, <2>1, <2>2, SettledOrder
  <2>4. LoadRunDetail(run, q)
    BY <1>2, <2>1 DEF ReplyWrite
  <2> QED BY <1>0, <2>1, <2>3, <2>4, LoadPanel
<1>3. CASE Fail(k)
  <2>1. UNCHANGED <<selected, panel, notes, resolved, unannounced, socket, elsewhere>>
    BY <1>3 DEF Fail
  <2>2. CASE requests[k].kind = "run"
    <3>1. requests' = Settled(k, k) /\ inDoubt' = (inDoubt \/ ~requests[k].late)
      BY <1>3, <2>2 DEF Fail
    <3> QED BY <2>1, <2>2, <3>1, SettlePanel
  <2>3. CASE requests[k].kind = "note"
    <3>1. requests' = Settled(k, 1) /\ inDoubt' = inDoubt /\ requests[k].status # "stored"
      BY <1>3, <2>3 DEF Fail, Types, Page
    <3> QED BY <2>1, <2>3, <3>1, FailedNotePanel
  <2>4. CASE requests[k].kind = "resolve"
    <3>1. requests' = Settled(k, Len(requests) + 1) /\ inDoubt'
      BY <1>3, <2>4 DEF Fail
    <3> QED BY <3>1, FailedFlagPanel
  <2> QED BY <1>0, <2>2, <2>3, <2>4 DEF Requests
<1> QED BY <1>1, <1>2, <1>3 DEF Reply

LEMMA PanelStep == Types /\ PanelInv /\ [Next]_vars => PanelInv'
<1> SUFFICES ASSUME Types, PanelInv, [Next]_vars PROVE PanelInv'
  OBVIOUS
<1>1. CASE UNCHANGED vars
  <2>1. UNCHANGED <<requests, selected, panel, inDoubt, notes, resolved, unannounced, elsewhere, socket>>
    BY <1>1 DEF vars, rows, timeline, history
  <2>2. NoteOnSocket => NoteOnSocket'
    BY <2>1 DEF NoteOnSocket
  <2> QED BY <2>1, <2>2, NothingNew, QuietPanel
<1>2. CASE \E k \in DOMAIN requests : Serve(k) \/ Reply(k) \/ Fail(k)
  BY <1>2, AnswersPanel, RepliesPanel
<1>3. CASE \E r \in RunIds : OtherNote(r) \/ PublishOtherNote(r) \/ OtherResolve(r) \/ Select(r)
  BY <1>3, OthersPanel, ClicksPanel
<1> QED BY <1>1, <1>2, <1>3, OthersPanel, ClicksPanel, TimelinePanel DEF Next, OnMessage

LEMMA PanelInit == Init => PanelInv
<1> SUFFICES ASSUME Init PROVE PanelInv
  OBVIOUS
<1>1. requests = <<>> /\ Len(requests) = 0 /\ selected = NoRun /\ panel.run = NoRun
  BY EmptySeq DEF Init
<1>2. Loads = {}
  BY <1>1 DEF Loads
<1> QED BY <1>1, <1>2 DEF PanelInv, LateFirst, LastIsSelected, PanelFollows

-----------------------------------------------------------------------------
(* The theorems *)

LEMMA PanelInvariant == Spec => [](Types /\ PanelInv)
<1>1. Init => Types /\ PanelInv
  BY TypesInit, PanelInit
<1>2. Types /\ PanelInv /\ [Next]_vars => (Types /\ PanelInv)'
  BY TypesStep, PanelStep
<1> QED BY <1>1, <1>2, PTL DEF Spec

\* Nothing is pending of a set of kinds if no request is of such a kind.
LEMMA NothingPending ==
    ASSUME Types, Pending({"run"}) = 0
    PROVE  Loads = {}
<1> DEFINE S == {i \in DOMAIN requests : requests[i].kind \in {"run"}}
<1>1. DOMAIN requests = 1..Len(requests) /\ Len(requests) \in Nat
  BY LenProperties DEF Types, Page
<1>2. IsFiniteSet(S)
  <2>1. IsFiniteSet(1..Len(requests)) /\ S \subseteq 1..Len(requests)
    BY <1>1, FS_Interval
  <2> QED BY <2>1, FS_Subset
<1>3. S = {}
  BY <1>2, FS_EmptySet DEF Pending
<1> QED BY <1>1, <1>3 DEF Loads

LEMMA PanelIsRight == Types /\ PanelInv => PanelIsSelected /\ PanelIsCurrent
<1> SUFFICES ASSUME Types, PanelInv PROVE PanelIsSelected /\ PanelIsCurrent
  OBVIOUS
<1>1. TypeOK
  <2>1. \A i \in DOMAIN requests : requests[i] \in Requests
    BY LenProperties, ElementOfSeq DEF Types, Page
  <2>2. \A i \in DOMAIN requests :
            /\ requests[i].kind \in {"run", "note", "resolve"}
            /\ requests[i].status \in {"sent", "stored", "answered"}
            /\ requests[i].run \in RunIds
    BY <2>1 DEF Requests
  <2>3. \A r \in RunIds : unannounced[r] \in 0..notes[r]
    <3>1. \A r \in RunIds : unannounced[r] \in Nat /\ notes[r] \in Nat /\ unannounced[r] <= notes[r]
      BY DEF Types, Server
    <3> QED BY <3>1
  <2> QED BY <2>2, <2>3 DEF TypeOK, Types, Server, Page
<1>2. ASSUME Calm
      PROVE  panel.run = selected /\ (selected # NoRun => IsCurrent(panel.notes, panel.resolved))
  BY <1>2, NothingPending DEF Calm, PanelInv, PanelFollows
<1>3. PanelIsSelected
  BY <1>1, <1>2 DEF PanelIsSelected
<1>4. ASSUME selected # NoRun, NothingUnderWay
      PROVE  /\ panel.notes = notes[selected]
             /\ panel.resolved = resolved[selected] \/ selected \in Range(elsewhere)
  <2>1. IsCurrent(panel.notes, panel.resolved)
    BY <1>2, <1>4 DEF NothingUnderWay
  <2>2. ~NoteStored /\ ~FlagComing
    BY <1>4, EmptySeq DEF NothingUnderWay, NoteStored, FlagComing
  <2>3. ~NoteOnSocket
    BY <1>4, LenProperties DEF NothingUnderWay, NoteOnSocket, Types, Server, Range
  <2>4. ~NoteComing
    BY <1>4, <2>2, <2>3 DEF NothingUnderWay, NoteComing
  <2>5. SetElsewhere => selected \in Range(elsewhere)
    BY LenProperties DEF SetElsewhere, Types, Page, Range
  <2> QED BY <2>1, <2>2, <2>4, <2>5 DEF IsCurrent
<1>5. PanelIsCurrent
  BY <1>4 DEF PanelIsCurrent
<1> QED BY <1>3, <1>5

\* Once the last request for a run has been answered, the panel is that of the
\* selected run, however late the others are answered, whatever fails, and with
\* whatever other dashboards write (loadRunDetail, app.js).
THEOREM PanelFollowsSelection == Spec => []PanelIsSelected
<1>1. Spec => [](Types /\ PanelInv)
  BY PanelInvariant
<1>2. Types /\ PanelInv => PanelIsSelected
  BY PanelIsRight
<1> QED BY <1>1, <1>2, PTL

\* And when nothing is under way it shows all notes of that run, and its flag
\* unless another dashboard has set it.
THEOREM PanelShowsAll == Spec => []PanelIsCurrent
<1>1. Spec => [](Types /\ PanelInv)
  BY PanelInvariant
<1>2. Types /\ PanelInv => PanelIsCurrent
  BY PanelIsRight
<1> QED BY <1>1, <1>2, PTL

=============================================================================
