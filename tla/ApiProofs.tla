------------------------------ MODULE ApiProofs ------------------------------
(***************************************************************************)
(* Proofs about what the REST API replies.  What a request reads, stores   *)
(* and announces agrees with the tables, whatever the pipeline and other   *)
(* requests write between its statements (Api).  The comparison of two     *)
(* runs mirrors that of the runs exchanged and accounts for every failure, *)
(* and the lists are in the order of time as far as the text of a time     *)
(* tells it (Reports), for any runs, events and limits: these are          *)
(* functions, and their proofs are by induction on a number (Induct).      *)
(***************************************************************************)
EXTENDS Api, Reports, SequenceTheorems, FunctionTheorems, FiniteSetTheorems, WellFoundedInduction, TLAPS

\* The tables a request reads after GetRun.
Tables == {"events", "failures", "incidents", "notes"}

\* What a handler may be doing: a request that reads has read the tables D.
ReadRequests(D) ==
    [kind    : {"get", "export", "compare"},
     run     : RunIds,
     summary : [events : Nat, failures : Nat],
     todo    : Seq(Tables),
     rows    : [D -> Nat],
     failed  : SUBSET Tables]

NoteRequests     == [kind : {"note"}, run : RunIds, station : Stations]
AnnounceRequests == [kind : {"announce"}, id : Nat]

\* It lists what it counted, but for statements that failed.
Lists(q, D) ==
    /\ \A table \in {"events", "failures"} \cap D :
           q.rows[table] < q.summary[table] => table \in q.failed
    /\ q.kind = "compare" => q.failed = {}

\* What a request carries agrees with the tables: the station of its run, the id of
\* a note that is stored, counts that no table has fallen below.
Agrees(q) ==
    \/ q \in {Idle, Replying}
    \/ /\ q \in NoteRequests
       /\ q.run \in DOMAIN runs
       /\ q.station = runs[q.run].station
    \/ q \in AnnounceRequests /\ q.id \in DOMAIN notes
    \/ \E D \in SUBSET Tables :
           /\ q \in ReadRequests(D)
           /\ q.summary.events <= events[q.run]
           /\ q.summary.failures <= failures[q.run]
           /\ Lists(q, D)

RequestsAgree == /\ DOMAIN request = Handlers
                 /\ \A h \in Handlers : Agrees(request[h])

Announcing(h) == request[h].kind = "announce"

\* Two handlers announce different notes.
AnnouncersDiffer ==
    \A g, h \in Handlers :
        Announcing(g) /\ Announcing(h) /\ request[g].id = request[h].id => g = h

ApiInv == /\ StoreInv
          /\ RequestsAgree
          /\ AnnouncersDiffer
          /\ announced \in Seq(Nat)
          /\ NotesBelongToRuns
          /\ NotesAnnouncedOnce

-----------------------------------------------------------------------------
(* Requests *)

\* The kind of a request tells what it carries.
LEMMA KindTells ==
    ASSUME NEW q, Agrees(q)
    PROVE  /\ q.kind \in {"none", "get", "export", "compare", "note", "announce", "reply"}
           /\ q.kind = "note" => /\ q \in NoteRequests /\ q.run \in DOMAIN runs
                                 /\ q.station = runs[q.run].station
           /\ q.kind = "announce" => q \in AnnounceRequests /\ q.id \in DOMAIN notes
           /\ q.kind \in {"get", "export", "compare"} =>
                  \E D \in SUBSET Tables :
                      /\ q \in ReadRequests(D)
                      /\ q.summary.events <= events[q.run]
                      /\ q.summary.failures <= failures[q.run]
                      /\ Lists(q, D)
<1>1. CASE q \in {Idle, Replying}
  BY <1>1 DEF Idle, Replying
<1>2. CASE q \in NoteRequests /\ q.run \in DOMAIN runs /\ q.station = runs[q.run].station
  BY <1>2 DEF NoteRequests
<1>3. CASE q \in AnnounceRequests /\ q.id \in DOMAIN notes
  BY <1>3 DEF AnnounceRequests
<1>4. ASSUME NEW D \in SUBSET Tables, q \in ReadRequests(D),
             q.summary.events <= events[q.run], q.summary.failures <= failures[q.run],
             Lists(q, D)
      PROVE  q.kind \in {"get", "export", "compare"}
  BY <1>4 DEF ReadRequests
<1>5. QED BY <1>1, <1>2, <1>3, <1>4 DEF Agrees

\* Tables that grow, and keep the stations of their runs.
Grow == /\ events \in [RunIds -> Nat] /\ events' \in [RunIds -> Nat]
        /\ failures \in [RunIds -> Nat] /\ failures' \in [RunIds -> Nat]
        /\ \A r \in RunIds : events[r] <= events'[r] /\ failures[r] <= failures'[r]
        /\ DOMAIN notes \subseteq DOMAIN notes'
        /\ \A r \in DOMAIN runs : r \in DOMAIN runs' /\ runs'[r].station = runs[r].station

\* A request agrees with tables that have grown since.
LEMMA StillAgrees == ASSUME NEW q, Agrees(q), Grow PROVE Agrees(q)'
<1>1. CASE q \in {Idle, Replying}
  BY <1>1 DEF Agrees
<1>2. CASE q \in NoteRequests /\ q.run \in DOMAIN runs /\ q.station = runs[q.run].station
  BY <1>2 DEF Agrees, Grow
<1>3. CASE q \in AnnounceRequests /\ q.id \in DOMAIN notes
  BY <1>3 DEF Agrees, Grow
<1>4. ASSUME NEW D \in SUBSET Tables, q \in ReadRequests(D),
             q.summary.events <= events[q.run], q.summary.failures <= failures[q.run],
             Lists(q, D)
      PROVE  Agrees(q)'
  <2>1. q.run \in RunIds /\ q.summary.events \in Nat /\ q.summary.failures \in Nat
    BY <1>4 DEF ReadRequests
  <2>2. /\ events[q.run] \in Nat /\ events'[q.run] \in Nat /\ events[q.run] <= events'[q.run]
        /\ failures[q.run] \in Nat /\ failures'[q.run] \in Nat
        /\ failures[q.run] <= failures'[q.run]
    BY <2>1 DEF Grow
  <2>3. q.summary.events <= events'[q.run] /\ q.summary.failures <= failures'[q.run]
    BY <1>4, <2>1, <2>2
  <2>4. QED BY <1>4, <2>3 DEF Agrees
<1>5. QED BY <1>1, <1>2, <1>3, <1>4 DEF Agrees

\* One request changes, while the tables stay or grow.
LEMMA OneRequest ==
    ASSUME RequestsAgree, Grow, NEW h \in Handlers, NEW q,
           request' = [request EXCEPT ![h] = q], Agrees(q)'
    PROVE  /\ RequestsAgree'
           /\ request'[h] = q
           /\ \A g \in Handlers \ {h} : request'[g] = request[g]
<1>1. DOMAIN request' = Handlers
  BY DEF RequestsAgree
<1>2. request'[h] = q /\ \A g \in Handlers \ {h} : request'[g] = request[g]
  BY DEF RequestsAgree
<1>3. ASSUME NEW g \in Handlers PROVE Agrees(request[g])'
  <2>1. CASE g = h
    BY <1>2, <2>1 DEF Agrees
  <2>2. CASE g # h
    <3>1. PICK x : x = request[g]
      OBVIOUS
    <3>2. Agrees(x)
      BY <3>1 DEF RequestsAgree
    <3>3. Agrees(x)'
      BY <3>2, StillAgrees
    <3>4. request'[g] = x
      BY <1>2, <2>2, <3>1
    <3>5. QED BY <3>3, <3>4 DEF Agrees
  <2>3. QED BY <2>1, <2>2
<1>4. QED BY <1>1, <1>2, <1>3 DEF RequestsAgree, Agrees

\* The statements after GetRun.
LEMMA StatementsAfterRun ==
    ASSUME NEW kind \in {"get", "export", "compare"}
    PROVE  Tail(Statements(kind)) \in Seq(Tables)
<1>1. /\ <<"events", "failures", "notes", "incidents">> \in Seq(Tables)
      /\ <<"events", "failures", "notes">> \in Seq(Tables)
      /\ <<"failures", "events">> \in Seq(Tables)
  BY DEF Tables
<1>2. /\ Tail(<<"run", "events", "failures", "notes", "incidents">>)
             = <<"events", "failures", "notes", "incidents">>
      /\ Tail(<<"run", "events", "failures", "notes">>) = <<"events", "failures", "notes">>
      /\ Tail(<<"run", "failures", "events">>) = <<"failures", "events">>
  OBVIOUS
<1>3. QED BY <1>1, <1>2 DEF Statements

\* A table has a number of rows.
LEMMA RowsAreCounted ==
    ASSUME TypeOK, NEW table \in Tables, NEW r \in RunIds
    PROVE  RowsOf(table, r) \in Nat
<1>1. CASE table \in {"events", "failures", "incidents"}
  BY <1>1 DEF RowsOf, TypeOK
<1>2. CASE table = "notes"
  <2> DEFINE X == {i \in DOMAIN notes : notes[i].run = r}
  <2>1. Len(notes) \in Nat /\ DOMAIN notes = 1..Len(notes)
    BY LenProperties DEF TypeOK
  <2>2. IsFiniteSet(1..Len(notes))
    BY <2>1, FS_Interval
  <2>3. Cardinality(X) \in Nat
    BY <2>1, <2>2, FS_Subset, FS_CardinalityType
  <2>4. QED BY <1>2, <2>3 DEF RowsOf
<1>3. QED BY <1>1, <1>2 DEF Tables

-----------------------------------------------------------------------------
(* What every step keeps *)

\* The tables, without the requests.
TablesInv ==
    /\ DOMAIN runs \subseteq RunIds
    /\ \A r \in DOMAIN runs : runs[r] \in [station : Stations, first : Times, last : Times,
                                           resolved : BOOLEAN]
    /\ events \in [RunIds -> Nat] /\ failures \in [RunIds -> Nat] /\ incidents \in [RunIds -> Nat]
    /\ notes \in Seq([run : RunIds, station : Stations])
    /\ RunsHaveEvents

\* The types of the whole are those of its parts.
LEMMA StoreInvMeans == RequestsAgree /\ Range(announced) \subseteq DOMAIN notes /\ TablesInv => StoreInv
<1> SUFFICES ASSUME RequestsAgree, Range(announced) \subseteq DOMAIN notes, TablesInv
             PROVE  StoreInv
  OBVIOUS
<1>1. \A h \in Handlers : request[h].kind \in {"none", "get", "export", "compare", "note",
                                               "announce", "reply"}
  <2> TAKE h \in Handlers
  <2>1. PICK q : q = request[h]
    OBVIOUS
  <2>2. Agrees(q)
    BY <2>1 DEF RequestsAgree
  <2>3. QED BY <2>1, <2>2, KindTells
<1>2. QED BY <1>1 DEF StoreInv, TypeOK, TablesInv

LEMMA StoreInvNext ==
    RequestsAgree' /\ Range(announced)' \subseteq DOMAIN notes' /\ TablesInv' => StoreInv'
<1> DEFINE P == RequestsAgree /\ Range(announced) \subseteq DOMAIN notes /\ TablesInv
<1>1. P => StoreInv
  BY StoreInvMeans
<1>2. RequestsAgree' /\ Range(announced)' \subseteq DOMAIN notes' /\ TablesInv' => P'
  BY DEF Range
<1> HIDE DEF P
<1>3. P' => StoreInv'
  BY <1>1, PTL
<1>4. QED BY <1>2, <1>3

\* The notes handlers have yet to announce.
Unannounced == {request[h].id : h \in {g \in Handlers : Announcing(g)}}

LEMMA AnnouncedMeans ==
    NotesAnnouncedOnce <=> /\ IsInjective(announced)
                           /\ Unannounced \cap Range(announced) = {}
                           /\ hubOpen => DOMAIN notes = Unannounced \cup Range(announced)
BY DEF NotesAnnouncedOnce, Unannounced, Announcing

LEMMA AnnouncedMeansNext ==
    NotesAnnouncedOnce' <=> /\ IsInjective(announced')
                            /\ Unannounced' \cap Range(announced') = {}
                            /\ hubOpen' => DOMAIN notes' = Unannounced' \cup Range(announced')
BY DEF NotesAnnouncedOnce, Unannounced, Announcing

\* Tables that do not change grow.
LEMMA SameTablesGrow == ASSUME TablesInv, UNCHANGED tables PROVE Grow /\ TablesInv'
<1>1. \A n \in Nat : n <= n
  OBVIOUS
<1>2. UNCHANGED <<runs, events, failures, incidents, notes>>
  BY DEF tables
<1>3. Grow
  BY <1>1, <1>2 DEF TablesInv, Grow
<1>4. TablesInv'
  BY <1>2 DEF TablesInv, RunsHaveEvents
<1>5. QED BY <1>3, <1>4

LEMMA InvHasTables == ApiInv => TablesInv /\ Range(announced) \subseteq DOMAIN notes
BY DEF ApiInv, StoreInv, TypeOK, TablesInv

\* A write of the pipeline leaves the requests and the notes alone.
LEMMA PipelineWrites ==
    ASSUME ApiInv, TablesInv', Grow, UNCHANGED <<notes, hubOpen, announced, request>>
    PROVE  ApiInv'
<1>1. RequestsAgree'
  <2>1. ASSUME NEW h \in Handlers PROVE Agrees(request[h])'
    <3>1. PICK q : q = request[h]
      OBVIOUS
    <3>2. Agrees(q)
      BY <3>1 DEF ApiInv, RequestsAgree
    <3>3. Agrees(q)'
      BY <3>2, StillAgrees
    <3>4. request'[h] = q
      BY <3>1
    <3>5. QED BY <3>3, <3>4 DEF Agrees
  <2>2. QED BY <2>1 DEF ApiInv, RequestsAgree
<1>2. NotesBelongToRuns'
  BY DEF ApiInv, NotesBelongToRuns, Grow
<1>3. Range(announced)' \subseteq DOMAIN notes'
  BY InvHasTables DEF Range
<1>4. StoreInv'
  BY <1>1, <1>3, StoreInvNext
<1>5. AnnouncersDiffer' /\ announced' \in Seq(Nat) /\ NotesAnnouncedOnce'
  BY DEF ApiInv, AnnouncersDiffer, Announcing, NotesAnnouncedOnce, IsInjective, Range
<1>6. QED BY <1>1, <1>2, <1>4, <1>5 DEF ApiInv

\* A request that has no note to announce, before and after.
LEMMA QuietRequest ==
    ASSUME ApiInv, TablesInv', Grow, UNCHANGED <<notes, hubOpen, announced>>,
           NEW h \in Handlers, NEW q, ~Announcing(h), q.kind # "announce", Agrees(q)',
           request' = [request EXCEPT ![h] = q]
    PROVE  ApiInv'
<1>1. /\ RequestsAgree'
      /\ request'[h] = q
      /\ \A g \in Handlers \ {h} : request'[g] = request[g]
  BY OneRequest DEF ApiInv
<1>2. NotesBelongToRuns'
  BY DEF ApiInv, NotesBelongToRuns, Grow
<1>3. Range(announced)' \subseteq DOMAIN notes'
  BY InvHasTables DEF Range
<1>4. StoreInv'
  BY <1>1, <1>3, StoreInvNext
<1>5. \A g \in Handlers : /\ Announcing(g)' <=> Announcing(g)
                          /\ Announcing(g) => request'[g] = request[g]
  BY <1>1 DEF Announcing
<1>6. AnnouncersDiffer'
  BY <1>5 DEF ApiInv, AnnouncersDiffer
<1>7. Unannounced' = Unannounced
  BY <1>5 DEF Unannounced
<1>8. NotesAnnouncedOnce'
  BY <1>7, AnnouncedMeans, AnnouncedMeansNext DEF ApiInv
<1>9. QED BY <1>1, <1>2, <1>4, <1>6, <1>8 DEF ApiInv

LEMMA InitApi == Init => ApiInv
<1> SUFFICES ASSUME Init PROVE ApiInv
  OBVIOUS
<1>1. /\ runs = <<>> /\ notes = <<>> /\ announced = <<>>
      /\ request = [h \in Handlers |-> Idle]
      /\ events = [r \in RunIds |-> 0]
      /\ failures = [r \in RunIds |-> 0]
      /\ incidents = [r \in RunIds |-> 0]
  BY DEF Init
<1>2. DOMAIN <<>> = {} /\ \A S : <<>> \in Seq(S)
  BY EmptySeq
<1>3. TablesInv
  BY <1>1, <1>2 DEF TablesInv, RunsHaveEvents
<1>4. RequestsAgree
  BY <1>1 DEF RequestsAgree, Agrees
<1>5. StoreInv
  BY <1>1, <1>2, <1>3, <1>4, StoreInvMeans DEF Range
<1>6. \A h \in Handlers : ~Announcing(h)
  BY <1>1 DEF Announcing, Idle
<1>7. AnnouncersDiffer /\ announced \in Seq(Nat) /\ NotesBelongToRuns
  BY <1>1, <1>2, <1>6 DEF AnnouncersDiffer, NotesBelongToRuns
<1>8. NotesAnnouncedOnce
  BY <1>1, <1>2, <1>6 DEF NotesAnnouncedOnce, IsInjective, Range, Announcing
<1>9. QED BY <1>4, <1>5, <1>7, <1>8 DEF ApiInv

-----------------------------------------------------------------------------
(* The pipeline *)

\* The upsert lists the run, and no run changes its station.
LEMMA UpsertProperties ==
    ASSUME TablesInv, NEW r \in RunIds, NEW s \in Stations, NEW t \in Times
    PROVE  /\ DOMAIN Upsert(r, s, t) = DOMAIN runs \cup {r}
           /\ \A x \in DOMAIN runs \cup {r} :
                  Upsert(r, s, t)[x] \in [station : Stations, first : Times, last : Times,
                                          resolved : BOOLEAN]
           /\ \A x \in DOMAIN runs : Upsert(r, s, t)[x].station = runs[x].station
<1> DEFINE Rows == [station : Stations, first : Times, last : Times, resolved : BOOLEAN]
<1>1. CASE r \in DOMAIN runs
  <2>1. Upsert(r, s, t) = [runs EXCEPT ![r].last = t]
    BY <1>1 DEF Upsert
  <2>2. runs[r] \in Rows
    BY <1>1 DEF TablesInv
  <2>3. [runs[r] EXCEPT !.last = t] \in Rows /\ [runs[r] EXCEPT !.last = t].station = runs[r].station
    BY <2>2
  <2>4. \A x \in DOMAIN runs : /\ Upsert(r, s, t)[x] \in Rows
                               /\ Upsert(r, s, t)[x].station = runs[x].station
    BY <2>1, <2>3 DEF TablesInv
  <2>5. QED BY <1>1, <2>1, <2>4
<1>2. CASE r \notin DOMAIN runs
  BY <1>2 DEF Upsert, Put, TablesInv
<1>3. QED BY <1>1, <1>2

LEMMA RecordEventApi ==
    ASSUME ApiInv, NEW r \in RunIds, NEW s \in Stations, NEW t \in Times, RecordEvent(r, s, t)
    PROVE  ApiInv'
<1>1. /\ runs' = Upsert(r, s, t)
      /\ events' = [events EXCEPT ![r] = events[r] + 1]
      /\ UNCHANGED <<failures, incidents, notes, hubOpen, announced, request>>
  BY DEF RecordEvent
<1>2. TablesInv
  BY InvHasTables
<1>3. /\ events \in [RunIds -> Nat] /\ events' \in [RunIds -> Nat]
      /\ events'[r] = events[r] + 1 /\ \A x \in RunIds \ {r} : events'[x] = events[x]
      /\ \A x \in RunIds : events[x] <= events'[x]
  BY <1>1, <1>2 DEF TablesInv
<1>4. /\ DOMAIN runs' = DOMAIN runs \cup {r}
      /\ \A x \in DOMAIN runs' :
             runs'[x] \in [station : Stations, first : Times, last : Times, resolved : BOOLEAN]
      /\ \A x \in DOMAIN runs : runs'[x].station = runs[x].station
  BY <1>1, <1>2, UpsertProperties
<1>5. events'[r] > 0
  BY <1>3
<1>6. RunsHaveEvents'
  BY <1>2, <1>3, <1>4, <1>5 DEF TablesInv, RunsHaveEvents
<1>7. TablesInv'
  BY <1>1, <1>2, <1>3, <1>4, <1>6 DEF TablesInv
<1>8. Grow
  BY <1>1, <1>2, <1>3, <1>4 DEF Grow, TablesInv
<1>9. QED BY <1>1, <1>7, <1>8, PipelineWrites

LEMMA DiagnosisApi ==
    ASSUME ApiInv, NEW r \in RunIds, RecordFailure(r) \/ SaveIncident(r)
    PROVE  ApiInv'
<1>1. /\ UNCHANGED <<runs, events, notes, hubOpen, announced, request>>
      /\ failures' = failures \/ failures' = [failures EXCEPT ![r] = failures[r] + 1]
      /\ incidents' = incidents \/ incidents' = [incidents EXCEPT ![r] = incidents[r] + 1]
  BY DEF RecordFailure, SaveIncident
<1>2. TablesInv
  BY InvHasTables
<1>3. /\ failures \in [RunIds -> Nat] /\ failures' \in [RunIds -> Nat]
      /\ incidents' \in [RunIds -> Nat]
      /\ \A x \in RunIds : failures[x] <= failures'[x]
  <2>1. ASSUME NEW f \in [RunIds -> Nat], NEW g, g = f \/ g = [f EXCEPT ![r] = f[r] + 1]
        PROVE  g \in [RunIds -> Nat] /\ \A x \in RunIds : f[x] <= g[x]
    <3>1. \A n \in Nat : n + 1 \in Nat /\ n <= n + 1 /\ n <= n
      OBVIOUS
    <3>2. CASE g = f
      BY <3>1, <3>2
    <3>3. CASE g = [f EXCEPT ![r] = f[r] + 1]
      <4>1. g \in [RunIds -> Nat] /\ g[r] = f[r] + 1 /\ \A x \in RunIds \ {r} : g[x] = f[x]
        BY <3>1, <3>3
      <4>2. QED BY <3>1, <4>1
    <3>4. QED BY <2>1, <3>2, <3>3
  <2>2. failures \in [RunIds -> Nat] /\ incidents \in [RunIds -> Nat]
    BY <1>2 DEF TablesInv
  <2>3. QED BY <1>1, <2>1, <2>2
<1>4. TablesInv'
  BY <1>1, <1>2, <1>3 DEF TablesInv, RunsHaveEvents
<1>5. Grow
  BY <1>1, <1>2, <1>3 DEF TablesInv, Grow
<1>6. QED BY <1>1, <1>4, <1>5, PipelineWrites

\* A closed hub announces nothing more.
LEMMA CloseHubApi == ASSUME ApiInv, CloseHub PROVE ApiInv'
<1>1. hubOpen' = FALSE /\ UNCHANGED <<tables, announced, request>>
  BY DEF CloseHub
<1>2. UNCHANGED <<runs, events, failures, incidents, notes>>
  BY <1>1 DEF tables
<1>3. StoreInv' /\ AnnouncersDiffer' /\ announced' \in Seq(Nat) /\ NotesBelongToRuns'
  BY <1>1, <1>2 DEF ApiInv, StoreInv, TypeOK, RunsHaveEvents, AnnouncersDiffer, Announcing,
                    NotesBelongToRuns, Range
<1>4. RequestsAgree'
  BY <1>1, <1>2 DEF ApiInv, RequestsAgree, Agrees
<1>5. Unannounced' = Unannounced
  BY <1>1 DEF Unannounced, Announcing
<1>6. NotesAnnouncedOnce'
  BY <1>1, <1>2, <1>5, AnnouncedMeans, AnnouncedMeansNext DEF ApiInv
<1>7. QED BY <1>3, <1>4, <1>6 DEF ApiInv

-----------------------------------------------------------------------------
(* The handlers *)

\* A request that reads begins with the counts of its run.
LEMMA BeginApi ==
    ASSUME ApiInv, NEW h \in Handlers, NEW kind \in {"get", "export", "compare"},
           NEW r \in RunIds, Begin(h, kind, r)
    PROVE  ApiInv'
<1>1. TablesInv /\ UNCHANGED <<tables, hubOpen, announced>> /\ ~Announcing(h) /\ r \in DOMAIN runs
  BY InvHasTables DEF Begin, Announcing, Idle
<1>2. Grow /\ TablesInv' /\ UNCHANGED <<events, failures, notes>>
  BY <1>1, SameTablesGrow DEF tables
<1>3. PICK q : q = [kind |-> kind, run |-> r, summary |-> Summary(r),
                    todo |-> Tail(Statements(kind)), rows |-> <<>>, failed |-> {}]
  OBVIOUS
<1>4. request' = [request EXCEPT ![h] = q]
  BY <1>3 DEF Begin
<1>5. Summary(r) \in [events : Nat, failures : Nat]
  BY <1>1 DEF Summary, TablesInv
<1>6. q \in ReadRequests({})
  <2>1. <<>> \in [{} -> Nat]
    OBVIOUS
  <2>2. QED BY <1>3, <1>5, <2>1, StatementsAfterRun DEF ReadRequests
<1>7. q.summary.events <= events'[q.run] /\ q.summary.failures <= failures'[q.run]
  <2>1. events[r] \in Nat /\ failures[r] \in Nat
    BY <1>1 DEF TablesInv
  <2>2. QED BY <1>2, <1>3, <2>1 DEF Summary
<1>8. Agrees(q)'
  <2>1. {} \in SUBSET Tables
    OBVIOUS
  <2>2. Lists(q, {})
    BY <1>3 DEF Lists
  <2>3. QED BY <1>6, <1>7, <2>1, <2>2 DEF Agrees
<1>9. q.kind # "announce"
  BY <1>3
<1>10. QED BY <1>1, <1>2, <1>4, <1>8, <1>9, QuietRequest DEF tables

\* The next statement lists no fewer rows than the first one counted, or fails.
LEMMA ReadOn ==
    ASSUME ApiInv, NEW h \in Handlers, Reads(h), UNCHANGED <<tables, hubOpen, announced>>,
           NEW p, p = request[h], NEW table, p.todo # <<>>, table = Head(p.todo),
           NEW n \in Nat, NEW more \in SUBSET Tables,
           n < RowsOf(table, p.run) => table \in more,
           p.kind = "compare" => more = {},
           request' = [request EXCEPT ![h] = [p EXCEPT !.todo = Tail(p.todo),
                                                       !.rows = Put(p.rows, table, n),
                                                       !.failed = p.failed \cup more]]
    PROVE  ApiInv'
<1>1. TablesInv /\ TypeOK /\ ~Announcing(h)
  BY InvHasTables DEF Reads, Announcing, ApiInv, StoreInv
<1>2. Grow /\ TablesInv' /\ UNCHANGED <<events, failures, notes>>
  BY <1>1, SameTablesGrow DEF tables
<1>4. PICK D \in SUBSET Tables :
           /\ p \in ReadRequests(D)
           /\ p.summary.events <= events[p.run]
           /\ p.summary.failures <= failures[p.run]
           /\ Lists(p, D)
  BY <1>1, KindTells DEF Reads, ApiInv, RequestsAgree
<1>7. /\ p.run \in RunIds /\ p.todo \in Seq(Tables) /\ p.rows \in [D -> Nat] /\ p.todo # <<>>
      /\ p.summary \in [events : Nat, failures : Nat]
      /\ p.failed \in SUBSET Tables
  BY <1>4 DEF ReadRequests
<1>8. table \in Tables /\ Tail(p.todo) \in Seq(Tables)
  BY <1>7, HeadTailProperties
<1>9. RowsOf(table, p.run) \in Nat
  BY <1>1, <1>7, <1>8, RowsAreCounted
<1> DEFINE rows   == Put(p.rows, table, n)
           failed == p.failed \cup more
           q      == [p EXCEPT !.todo = Tail(p.todo), !.rows = rows, !.failed = failed]
           E      == D \cup {table}
<1>10. rows \in [E -> Nat] /\ rows[table] = n /\ \A t \in D \ {table} : rows[t] = p.rows[t]
  BY <1>7, <1>9 DEF Put
<1>11. request' = [request EXCEPT ![h] = q]
  OBVIOUS
<1>12. /\ q \in ReadRequests(E) /\ q.run = p.run /\ q.summary = p.summary /\ q.kind = p.kind
       /\ q.rows = rows /\ q.failed = failed
  <2> HIDE DEF rows, E
  <2>1. QED BY <1>4, <1>7, <1>8, <1>10 DEF ReadRequests
<1>13. q.kind # "announce"
  BY <1>12 DEF ReadRequests
<1> HIDE DEF q, rows
<1>14. ASSUME NEW t \in {"events", "failures"} \cap E, q.rows[t] < q.summary[t]
       PROVE  t \in q.failed
  <2>1. CASE t # table
    <3>1. t \in {"events", "failures"} \cap D /\ p.rows[t] < p.summary[t]
      BY <1>10, <1>12, <1>14, <2>1
    <3>2. QED BY <1>4, <1>12, <3>1 DEF Lists
  <2>2. CASE t = table
    <3>1. PICK c : c = RowsOf(table, p.run)
      OBVIOUS
    <3>2. t = "events" => c = events[p.run] /\ p.summary[t] = p.summary.events
      BY <2>2, <3>1 DEF RowsOf
    <3>3. t = "failures" => c = failures[p.run] /\ p.summary[t] = p.summary.failures
      BY <2>2, <3>1 DEF RowsOf
    <3>4. p.summary[t] <= c /\ p.summary[t] \in Nat /\ c \in Nat
      BY <1>4, <1>7, <1>9, <3>1, <3>2, <3>3
    <3>5. n < p.summary[t]
      BY <1>10, <1>12, <1>14, <2>2
    <3>6. n < c
      BY <3>4, <3>5
    <3>7. QED BY <1>12, <2>2, <3>1, <3>6
  <2>3. QED BY <2>1, <2>2
<1>15. q.kind = "compare" => q.failed = {}
  BY <1>4, <1>12 DEF Lists
<1>16. Agrees(q)'
  <2>1. E \in SUBSET Tables
    BY <1>8
  <2>2. q.summary.events <= events'[q.run] /\ q.summary.failures <= failures'[q.run]
    BY <1>2, <1>4, <1>12
  <2> HIDE DEF E
  <2>3. Lists(q, E)
    BY <1>14, <1>15 DEF Lists
  <2>4. QED BY <1>12, <2>1, <2>2, <2>3 DEF Agrees
<1>17. PICK x : x = q
  OBVIOUS
<1>18. Agrees(x)' /\ x.kind # "announce" /\ request' = [request EXCEPT ![h] = x]
  BY <1>11, <1>13, <1>16, <1>17 DEF Agrees
<1>19. QED BY <1>1, <1>2, <1>18, QuietRequest DEF tables

LEMMA ReadApi ==
    ASSUME ApiInv, NEW h \in Handlers, Read(h)
    PROVE  ApiInv'
<1>1. PICK p : p = request[h]
  OBVIOUS
<1>2. PICK n : n = RowsOf(Head(p.todo), p.run)
  OBVIOUS
<1>3. /\ Reads(h) /\ p.todo # <<>> /\ UNCHANGED <<tables, hubOpen, announced>>
      /\ request' = [request EXCEPT ![h].todo = Tail(@), ![h].rows = Put(@, Head(p.todo), n)]
  BY <1>1, <1>2 DEF Read
<1>4. PICK D \in SUBSET Tables : p \in ReadRequests(D)
  BY <1>1, <1>3, KindTells DEF Reads, ApiInv, RequestsAgree
<1>5. p.run \in RunIds /\ p.todo \in Seq(Tables) /\ p.failed \in SUBSET Tables
  BY <1>4 DEF ReadRequests
<1>6. n \in Nat /\ ~(n < RowsOf(Head(p.todo), p.run))
  <2>1. Head(p.todo) \in Tables
    BY <1>3, <1>5, HeadTailProperties
  <2>2. n \in Nat
    BY <1>2, <1>5, <2>1, RowsAreCounted DEF ApiInv, StoreInv
  <2>3. QED BY <1>2, <2>2
<1>7. request' = [request EXCEPT ![h] = [p EXCEPT !.todo = Tail(p.todo),
                                                  !.rows = Put(p.rows, Head(p.todo), n),
                                                  !.failed = p.failed \cup {}]]
  <2>1. DOMAIN request = Handlers
    BY DEF ApiInv, RequestsAgree
  <2>2. p = [p EXCEPT !.failed = p.failed \cup {}]
    BY <1>4 DEF ReadRequests
  <2>3. [p EXCEPT !.todo = Tail(p.todo), !.rows = Put(p.rows, Head(p.todo), n)]
          = [p EXCEPT !.todo = Tail(p.todo), !.rows = Put(p.rows, Head(p.todo), n),
                      !.failed = p.failed \cup {}]
    BY <1>4 DEF ReadRequests
  <2>4. QED BY <1>1, <1>3, <2>1, <2>3
<1>8. PICK table : table = Head(p.todo)
  OBVIOUS
<1>9. request' = [request EXCEPT ![h] = [p EXCEPT !.todo = Tail(p.todo),
                                                  !.rows = Put(p.rows, table, n),
                                                  !.failed = p.failed \cup {}]]
  BY <1>7, <1>8
<1>10. n \in Nat /\ (n < RowsOf(table, p.run) => table \in {}) /\ {} \in SUBSET Tables
  BY <1>6, <1>8
<1>11. QED BY <1>1, <1>3, <1>8, <1>9, <1>10, ReadOn

\* A request that is answered next, and was not about to announce a note.
LEMMA AnsweredApi ==
    ASSUME ApiInv, NEW h \in Handlers, ~Announcing(h), UNCHANGED <<tables, hubOpen, announced>>,
           request' = [request EXCEPT ![h] = Replying]
    PROVE  ApiInv'
<1>1. TablesInv
  BY InvHasTables
<1>2. Grow /\ TablesInv' /\ UNCHANGED notes
  BY <1>1, SameTablesGrow DEF tables
<1>3. Agrees(Replying)' /\ Replying.kind # "announce"
  BY DEF Agrees, Replying
<1>4. QED BY <1>2, <1>3, QuietRequest

LEMMA ReadFailsApi ==
    ASSUME ApiInv, NEW h \in Handlers, ReadFails(h)
    PROVE  ApiInv'
<1>1. PICK p : p = request[h]
  OBVIOUS
<1>2. Reads(h) /\ p.todo # <<>> /\ UNCHANGED <<tables, hubOpen, announced>> /\ ~Announcing(h)
  BY <1>1 DEF ReadFails, Reads, Announcing
<1>3. CASE p.kind = "compare"
  BY <1>1, <1>2, <1>3, AnsweredApi DEF ReadFails
<1>4. CASE p.kind # "compare"
  <2>1. PICK table : table = Head(p.todo)
    OBVIOUS
  <2>2. PICK n \in 0..RowsOf(table, p.run) :
            request' = [request EXCEPT ![h].todo = Tail(@),
                                       ![h].rows = Put(@, table, n),
                                       ![h].failed = @ \cup {table}]
    BY <1>1, <1>4, <2>1 DEF ReadFails
  <2> DEFINE q == [p EXCEPT !.todo = Tail(p.todo), !.rows = Put(p.rows, table, n),
                            !.failed = p.failed \cup {table}]
  <2>6. request' = [request EXCEPT ![h] = q]
    <3>1. DOMAIN request = Handlers
      BY DEF ApiInv, RequestsAgree
    <3>2. QED BY <1>1, <2>2, <3>1
  <2>3. PICK D \in SUBSET Tables : p \in ReadRequests(D)
    BY <1>1, <1>2, KindTells DEF Reads, ApiInv, RequestsAgree
  <2>4. table \in Tables
    <3>1. p.todo \in Seq(Tables)
      BY <2>3 DEF ReadRequests
    <3>2. QED BY <1>2, <2>1, <3>1, HeadTailProperties
  <2>7. n \in Nat /\ {table} \in SUBSET Tables /\ table \in {table}
    <3>1. RowsOf(table, p.run) \in Nat
      <4>1. p.run \in RunIds
        BY <2>3 DEF ReadRequests
      <4>2. QED BY <2>4, <4>1, RowsAreCounted DEF ApiInv, StoreInv
    <3>2. QED BY <2>4, <3>1
  <2>8. PICK more : more = {table}
    OBVIOUS
  <2>9. /\ n \in Nat /\ more \in SUBSET Tables /\ table \in more
        /\ request' = [request EXCEPT ![h] = [p EXCEPT !.todo = Tail(p.todo),
                                                       !.rows = Put(p.rows, table, n),
                                                       !.failed = p.failed \cup more]]
    BY <2>6, <2>7, <2>8
  <2>10. QED BY <1>1, <1>2, <1>4, <2>1, <2>9, ReadOn
<1>5. QED BY <1>3, <1>4

LEMMA ReplyApi ==
    ASSUME ApiInv, NEW h \in Handlers, Reply(h)
    PROVE  ApiInv'
<1>1. /\ TablesInv /\ UNCHANGED <<tables, hubOpen, announced>> /\ ~Announcing(h)
      /\ request' = [request EXCEPT ![h] = Idle]
  BY InvHasTables DEF Reply, Reads, Announcing
<1>2. Grow /\ TablesInv' /\ UNCHANGED notes
  BY <1>1, SameTablesGrow DEF tables
<1>3. Agrees(Idle)' /\ Idle.kind # "announce"
  BY DEF Agrees, Idle
<1>4. QED BY <1>1, <1>2, <1>3, QuietRequest

LEMMA PostNoteApi ==
    ASSUME ApiInv, NEW h \in Handlers, NEW r \in RunIds, PostNote(h, r)
    PROVE  ApiInv'
<1>1. /\ TablesInv /\ UNCHANGED <<tables, hubOpen, announced>> /\ ~Announcing(h)
      /\ r \in DOMAIN runs
  BY InvHasTables DEF PostNote, Announcing, Idle
<1>2. Grow /\ TablesInv' /\ UNCHANGED <<runs, notes>>
  BY <1>1, SameTablesGrow DEF tables
<1>3. PICK q : q = [kind |-> "note", run |-> r, station |-> runs[r].station]
  OBVIOUS
<1>4. request' = [request EXCEPT ![h] = q]
  BY <1>3 DEF PostNote
<1>5. runs[r].station \in Stations
  BY <1>1 DEF TablesInv
<1>6. q \in NoteRequests /\ q.run \in DOMAIN runs' /\ q.station = runs'[q.run].station
  BY <1>1, <1>2, <1>3, <1>5 DEF NoteRequests
<1>7. Agrees(q)' /\ q.kind # "announce"
  BY <1>3, <1>6 DEF Agrees
<1>8. QED BY <1>1, <1>2, <1>4, <1>7, QuietRequest

LEMMA ResolveApi ==
    ASSUME ApiInv, NEW h \in Handlers, NEW r \in RunIds, NEW flag \in BOOLEAN, Resolve(h, r, flag)
    PROVE  ApiInv'
<1>1. /\ TablesInv /\ UNCHANGED <<events, failures, incidents, notes, hubOpen, announced>>
      /\ ~Announcing(h) /\ r \in DOMAIN runs
      /\ runs' = [runs EXCEPT ![r].resolved = flag]
      /\ request' = [request EXCEPT ![h] = Replying]
  BY InvHasTables DEF Resolve, Announcing, Idle
<1>2. /\ DOMAIN runs' = DOMAIN runs
      /\ \A x \in DOMAIN runs :
             /\ runs'[x].station = runs[x].station
             /\ runs'[x] \in [station : Stations, first : Times, last : Times, resolved : BOOLEAN]
  <2> DEFINE Rows == [station : Stations, first : Times, last : Times, resolved : BOOLEAN]
  <2>1. [runs[r] EXCEPT !.resolved = flag] \in Rows
        /\ [runs[r] EXCEPT !.resolved = flag].station = runs[r].station
    BY <1>1 DEF TablesInv
  <2>2. QED BY <1>1, <2>1 DEF TablesInv
<1>3. TablesInv'
  BY <1>1, <1>2 DEF TablesInv, RunsHaveEvents
<1>4. Grow
  <2>1. \A n \in Nat : n <= n
    OBVIOUS
  <2>2. QED BY <1>1, <1>2, <2>1 DEF Grow, TablesInv
<1>5. Agrees(Replying)' /\ Replying.kind # "announce"
  BY DEF Agrees, Replying
<1>6. QED BY <1>1, <1>3, <1>4, <1>5, QuietRequest

\* A stored note is that of its run, and its id is new to handlers and hub.
LEMMA AddNoteApi ==
    ASSUME ApiInv, NEW h \in Handlers, AddNote(h)
    PROVE  ApiInv'
<1>1. PICK p : p = request[h]
  OBVIOUS
<1>2. /\ p.kind = "note"
      /\ p \in NoteRequests /\ p.run \in DOMAIN runs /\ p.station = runs[p.run].station
  BY <1>1, KindTells DEF AddNote, ApiInv, RequestsAgree
<1>3. /\ UNCHANGED <<runs, events, failures, incidents, hubOpen, announced>>
      /\ TablesInv
  BY InvHasTables DEF AddNote
<1> DEFINE Rows == [run : RunIds, station : Stations]
           note == [run |-> p.run, station |-> p.station]
<1>4. note \in Rows /\ notes \in Seq(Rows) /\ notes' = Append(notes, note)
  BY <1>1, <1>2, <1>3 DEF AddNote, NoteRequests, TablesInv
<1> HIDE DEF Rows
<1>5. PICK n \in Nat : n = Len(notes) + 1
  BY <1>4, LenProperties
<1>6. /\ notes' \in Seq(Rows)
      /\ DOMAIN notes = 1..(n - 1)
      /\ DOMAIN notes' = 1..n
      /\ notes'[n] = note
      /\ \A i \in DOMAIN notes : notes'[i] = notes[i]
  <2>1. /\ notes' \in Seq(Rows)
        /\ Len(notes') = Len(notes) + 1
        /\ \A i \in 1..Len(notes) : notes'[i] = notes[i]
        /\ notes'[Len(notes) + 1] = note
    BY <1>4, AppendProperties
  <2>2. DOMAIN notes = 1..Len(notes) /\ DOMAIN notes' = 1..Len(notes')
        /\ Len(notes) \in Nat
    BY <1>4, <2>1, LenProperties
  <2>3. QED BY <1>5, <2>1, <2>2
<1>7. /\ DOMAIN notes' = DOMAIN notes \cup {n} /\ n \notin DOMAIN notes
  <2>1. n >= 1
    BY <1>4, <1>5, LenProperties
  <2>2. QED BY <1>5, <1>6, <2>1
<1>8. PICK q : q = [kind |-> "announce", id |-> n]
  OBVIOUS
<1>9. request' = [request EXCEPT ![h] = q]
  BY <1>5, <1>8 DEF AddNote
<1>10. TablesInv'
  BY <1>3, <1>6 DEF TablesInv, RunsHaveEvents, Rows
<1>11. Grow
  <2>1. \A k \in Nat : k <= k
    OBVIOUS
  <2>2. QED BY <1>3, <1>7, <2>1 DEF Grow, TablesInv
<1>12. Agrees(q)'
  BY <1>7, <1>8 DEF Agrees, AnnounceRequests
<1>13. /\ RequestsAgree'
       /\ request'[h] = q
       /\ \A g \in Handlers \ {h} : request'[g] = request[g]
  BY <1>9, <1>11, <1>12, OneRequest DEF ApiInv
<1>14. NotesBelongToRuns'
  BY <1>2, <1>3, <1>6, <1>7 DEF ApiInv, NotesBelongToRuns
<1>15. Range(announced) \subseteq DOMAIN notes /\ Range(announced') = Range(announced)
  BY <1>3, InvHasTables
<1>16. StoreInv'
  BY <1>7, <1>10, <1>13, <1>15, StoreInvNext DEF Range
<1>17. /\ Announcing(h)' /\ ~Announcing(h) /\ request'[h].id = n
       /\ \A g \in Handlers \ {h} : Announcing(g)' <=> Announcing(g)
  BY <1>1, <1>2, <1>8, <1>13 DEF Announcing
<1>18. ASSUME NEW g \in Handlers, Announcing(g) PROVE request[g].id \in DOMAIN notes
  <2>1. PICK x : x = request[g]
    OBVIOUS
  <2>2. Agrees(x) /\ x.kind = "announce"
    BY <1>18, <2>1 DEF ApiInv, RequestsAgree, Announcing
  <2>3. QED BY <2>1, <2>2, KindTells
<1>19. AnnouncersDiffer'
  BY <1>7, <1>13, <1>17, <1>18 DEF ApiInv, AnnouncersDiffer
<1>20. Unannounced' = Unannounced \cup {n}
  BY <1>13, <1>17 DEF Unannounced
<1>21. NotesAnnouncedOnce'
  BY <1>3, <1>7, <1>15, <1>20, AnnouncedMeans, AnnouncedMeansNext DEF ApiInv
<1>22. QED BY <1>3, <1>13, <1>14, <1>16, <1>19, <1>21 DEF ApiInv

\* An announced note leaves the handler's hands; a closed hub does not take it.
LEMMA PublishNoteApi ==
    ASSUME ApiInv, NEW h \in Handlers, PublishNote(h)
    PROVE  ApiInv'
<1>1. PICK p : p = request[h]
  OBVIOUS
<1>2. p.kind = "announce" /\ p \in AnnounceRequests /\ p.id \in DOMAIN notes
  BY <1>1, KindTells DEF PublishNote, ApiInv, RequestsAgree
<1>3. PICK n \in Nat : n = p.id /\ n \in DOMAIN notes
  BY <1>2 DEF AnnounceRequests
<1>4. /\ TablesInv /\ UNCHANGED <<tables, hubOpen>>
      /\ request' = [request EXCEPT ![h] = Replying]
      /\ announced' = IF hubOpen THEN Append(announced, n) ELSE announced
  BY <1>1, <1>3, InvHasTables DEF PublishNote
<1>5. Grow /\ TablesInv' /\ UNCHANGED <<runs, notes>>
  BY <1>4, SameTablesGrow DEF tables
<1>6. /\ RequestsAgree'
      /\ request'[h] = Replying
      /\ \A g \in Handlers \ {h} : request'[g] = request[g]
  <2>1. Agrees(Replying)'
    BY DEF Agrees
  <2>2. QED BY <1>4, <1>5, <2>1, OneRequest DEF ApiInv
<1>7. /\ Announcing(h) /\ request[h].id = n /\ ~Announcing(h)'
      /\ \A g \in Handlers \ {h} : Announcing(g)' <=> Announcing(g)
  BY <1>1, <1>2, <1>3, <1>6 DEF Announcing, Replying
<1>8. Unannounced = Unannounced' \cup {n} /\ n \notin Unannounced'
  <2>1. \A g \in Handlers \ {h} : Announcing(g) => request[g].id # n
    BY <1>7 DEF ApiInv, AnnouncersDiffer
  <2>2. QED BY <1>6, <1>7, <2>1 DEF Unannounced
<1>9. AnnouncersDiffer'
  BY <1>6, <1>7 DEF ApiInv, AnnouncersDiffer
<1>10. NotesBelongToRuns'
  BY <1>5 DEF ApiInv, NotesBelongToRuns
<1>11. /\ announced \in Seq(Nat)
       /\ IsInjective(announced)
       /\ n \notin Range(announced)
       /\ Unannounced' \cap Range(announced) = {}
       /\ hubOpen => DOMAIN notes = Unannounced \cup Range(announced)
       /\ Range(announced) \subseteq DOMAIN notes
  BY <1>8, AnnouncedMeans, InvHasTables DEF ApiInv
<1>12. CASE ~hubOpen
  <2>1. announced' = announced
    BY <1>4, <1>12
  <2>2. NotesAnnouncedOnce'
    BY <1>4, <1>11, <1>12, <2>1, AnnouncedMeansNext
  <2>3. StoreInv'
    BY <1>5, <1>6, <1>11, <2>1, StoreInvNext DEF Range
  <2>4. QED BY <1>6, <1>9, <1>10, <1>11, <2>1, <2>2, <2>3 DEF ApiInv
<1>13. CASE hubOpen
  <2>1. announced' = Append(announced, n)
    BY <1>4, <1>13
  <2>2. /\ announced' \in Seq(Nat)
        /\ Range(announced') = Range(announced) \cup {n}
        /\ IsInjective(announced')
    <3> DEFINE l == Len(announced)
    <3>1. /\ announced' \in Seq(Nat)
          /\ Len(announced') = l + 1
          /\ \A i \in 1..l : announced'[i] = announced[i]
          /\ announced'[l + 1] = n
      BY <1>11, <2>1, AppendProperties
    <3>2. l \in Nat /\ DOMAIN announced = 1..l /\ DOMAIN announced' = 1..(l + 1)
      BY <1>11, <3>1, LenProperties
    <3> HIDE DEF l
    <3>3. \A i \in 1..(l + 1) : i \in 1..l \/ i = l + 1
      BY <3>2
    <3>4. 1..l \subseteq 1..(l + 1) /\ l + 1 \in 1..(l + 1)
      BY <3>2
    <3>5. Range(announced') = Range(announced) \cup {n}
      BY <3>1, <3>2, <3>3, <3>4 DEF Range
    <3>6. \A i \in 1..l : announced[i] # n
      BY <1>11, <3>2 DEF Range
    <3>7. IsInjective(announced')
      BY <1>11, <3>1, <3>2, <3>3, <3>6 DEF IsInjective
    <3>8. QED BY <3>1, <3>5, <3>7
  <2>3. NotesAnnouncedOnce'
    BY <1>4, <1>5, <1>8, <1>11, <1>13, <2>2, AnnouncedMeansNext
  <2>4. Range(announced)' = Range(announced')
    BY DEF Range
  <2>5. StoreInv'
    BY <1>3, <1>5, <1>6, <1>11, <2>2, <2>4, StoreInvNext
  <2>6. QED BY <1>6, <1>9, <1>10, <2>2, <2>3, <2>5 DEF ApiInv
<1>14. QED BY <1>12, <1>13

-----------------------------------------------------------------------------

LEMMA NextApi == ApiInv /\ [Next]_vars => ApiInv'
<1> SUFFICES ASSUME ApiInv, [Next]_vars PROVE ApiInv'
  OBVIOUS
<1>1. ASSUME NEW r \in RunIds, NEW s \in Stations, NEW t \in Times, RecordEvent(r, s, t)
      PROVE  ApiInv'
  BY <1>1, RecordEventApi
<1>2. ASSUME NEW r \in RunIds, RecordFailure(r) \/ SaveIncident(r) PROVE ApiInv'
  BY <1>2, DiagnosisApi
<1>3. CASE CloseHub
  BY <1>3, CloseHubApi
<1>4. ASSUME NEW h \in Handlers, NEW r \in RunIds, NEW kind \in {"get", "export", "compare"},
             Begin(h, kind, r)
      PROVE  ApiInv'
  BY <1>4, BeginApi
<1>5. ASSUME NEW h \in Handlers, NEW r \in RunIds, PostNote(h, r) PROVE ApiInv'
  BY <1>5, PostNoteApi
<1>6. ASSUME NEW h \in Handlers, NEW r \in RunIds, NEW flag \in BOOLEAN, Resolve(h, r, flag)
      PROVE  ApiInv'
  BY <1>6, ResolveApi
<1>7. ASSUME NEW h \in Handlers,
             \/ Read(h) \/ ReadFails(h) \/ Refuse(h) \/ Reply(h)
             \/ AddNote(h) \/ AddNoteFails(h) \/ PublishNote(h)
      PROVE  ApiInv'
  <2>1. CASE Refuse(h) \/ AddNoteFails(h)
    BY <2>1, AnsweredApi DEF Refuse, AddNoteFails, Announcing, Idle
  <2>2. QED BY <1>7, <2>1, ReadApi, ReadFailsApi, ReplyApi, AddNoteApi, PublishNoteApi
<1>8. CASE UNCHANGED vars
  <2>1. UNCHANGED <<runs, events, failures, incidents, notes, hubOpen, announced, request>>
    BY <1>8 DEF vars, tables
  <2>2. StoreInv' /\ AnnouncersDiffer' /\ announced' \in Seq(Nat) /\ NotesBelongToRuns'
    BY <2>1 DEF ApiInv, StoreInv, TypeOK, RunsHaveEvents, AnnouncersDiffer, Announcing,
                NotesBelongToRuns, Range
  <2>3. RequestsAgree'
    BY <2>1 DEF ApiInv, RequestsAgree, Agrees
  <2>4. Unannounced' = Unannounced
    BY <2>1 DEF Unannounced, Announcing
  <2>5. NotesAnnouncedOnce'
    BY <2>1, <2>4, AnnouncedMeans, AnnouncedMeansNext DEF ApiInv
  <2>6. QED BY <2>2, <2>3, <2>5 DEF ApiInv
<1>9. QED BY <1>1, <1>2, <1>3, <1>4, <1>5, <1>6, <1>7, <1>8 DEF Next

LEMMA ApiInvariant == Spec => []ApiInv
BY InitApi, NextApi, PTL DEF Spec

\* A run is listed if and only if it has events, between any two statements of any
\* number of requests: RecordEvent writes both in one transaction.
THEOREM StoreCorrect == Spec => []StoreInv
<1>1. ApiInv => StoreInv
  BY DEF ApiInv
<1>2. QED BY <1>1, ApiInvariant, PTL

\* A run detail, a report or a comparison lists every event and every failure it counts,
\* although other requests and the pipeline write between its statements, unless
\* the statement of that list failed; a comparison is not answered then.
THEOREM RepliesListWhatTheyCount == Spec => []CountedIsListed
<1>1. ApiInv => CountedIsListed
  <2> SUFFICES ASSUME ApiInv, NEW h \in Handlers, Reads(h),
                      NEW p, p = request[h]
               PROVE  /\ \A table \in {"events", "failures"} \cap DOMAIN p.rows :
                             p.rows[table] < p.summary[table] => table \in p.failed
                      /\ p.kind = "compare" => p.failed = {}
    BY DEF CountedIsListed
  <2>1. PICK D \in SUBSET Tables : p \in ReadRequests(D) /\ Lists(p, D)
    BY KindTells DEF Reads, ApiInv, RequestsAgree
  <2>2. DOMAIN p.rows = D
    BY <2>1 DEF ReadRequests
  <2>3. QED BY <2>1, <2>2 DEF Lists
<1>2. QED BY <1>1, ApiInvariant, PTL

\* A note belongs to a run that exists and carries the station of that run, although
\* handleNotes looks the run up and inserts the note in two statements.
THEOREM NotesFollowRuns == Spec => []NotesBelongToRuns
<1>1. ApiInv => NotesBelongToRuns
  BY DEF ApiInv
<1>2. QED BY <1>1, ApiInvariant, PTL

\* Every stored note is announced exactly once, whichever handlers interleave, unless
\* the hub closes before its turn.
THEOREM EveryNoteAnnounced == Spec => []NotesAnnouncedOnce
<1>1. ApiInv => NotesAnnouncedOnce
  BY DEF ApiInv
<1>2. QED BY <1>1, ApiInvariant, PTL

-----------------------------------------------------------------------------
(* Induction *)

\* Some number is the least of a set of them.
LEMMA Least ==
  ASSUME NEW T, T \subseteq Nat, T # {}
  PROVE \E x \in T : \A y \in T : x <= y
<1>1. PICK R : R = OpToRel(<, Nat)
  OBVIOUS
<1>2. IsWellFoundedOn(R, Nat)
  BY <1>1, NatLessThanWellFounded
<1>3. \E x \in T : \A y \in T : <<y, x>> \notin R
  BY <1>2, WFMin
<1>4. R = {ss \in Nat \X Nat : ss[1] < ss[2]}
  BY <1>1 DEF OpToRel
<1>5. PICK x \in T : \A y \in T : <<y, x>> \notin R
  BY <1>3
<1>6. ASSUME NEW y \in T PROVE x <= y
  <2>1. y \in Nat /\ x \in Nat
    OBVIOUS
  <2>2. ~(y < x)
    <3>1. SUFFICES ASSUME y < x PROVE <<y, x>> \in R
      BY <1>5
    <3>2. <<y, x>> \in Nat \X Nat /\ <<y, x>>[1] < <<y, x>>[2]
      BY ONLY <2>1, <3>1
    <3> QED BY ONLY <1>4, <3>2
  <2> QED BY ONLY <2>1, <2>2
<1>7. QED BY <1>6

\* The induction on numbers, for a set of them.
LEMMA Induct ==
  ASSUME NEW S, 0 \in S, \A n \in Nat : n \in S => n + 1 \in S
  PROVE Nat \subseteq S
<1> SUFFICES ASSUME NEW n \in Nat, n \notin S PROVE FALSE OBVIOUS
<1> DEFINE T == {m \in Nat : m \notin S}
<1>1. T \subseteq Nat /\ T # {} OBVIOUS
<1>2. PICK x \in T : \A y \in T : x <= y
   BY <1>1, Least
<1>3. x # 0 /\ x - 1 \in Nat /\ x - 1 \notin T
   BY <1>2
<1> QED BY <1>3

-----------------------------------------------------------------------------
(* The comparison *)

\* What the store holds of a run: its failures, and its events with their times.
Recorded(run) ==
    /\ \E S, T : run \in [failures : Seq(S), events : Seq(T)]
    /\ \A i \in DOMAIN run.events : run.events[i].at \in Int

\* The values of a sequence of integers, if any, have a greatest and a least.
LEMMA Extremes ==
    ASSUME NEW n \in Nat, NEW f \in [1..n -> Int], NEW J, J \subseteq 1..n, J # {}
    PROVE  Max({f[i] : i \in J}) \in Int /\ Min({f[i] : i \in J}) \in Int
<1> DEFINE Upto(m) == {j \in J : j <= m}
           V(m) == {f[i] : i \in Upto(m)}
           Ends(T) == /\ \E x \in T : \A y \in T : x >= y
                      /\ \E x \in T : \A y \in T : x <= y
           G == {m \in Nat : m <= n => V(m) = {} \/ Ends(V(m))}
<1>0. \A j \in J : j \in Nat /\ 1 <= j /\ j <= n
  OBVIOUS
<1>1. 0 \in G
  <2>1. Upto(0) = {}
    BY ONLY <1>0
  <2>2. V(0) = {}
    BY <2>1
  <2> HIDE DEF V
  <2> QED BY <2>2
<1>2. ASSUME NEW m \in Nat, m \in G PROVE m + 1 \in G
  <2>0. ASSUME m + 1 <= n PROVE V(m + 1) = {} \/ Ends(V(m + 1))
    <3>1. V(m) \subseteq Int /\ f[m + 1] \in Int
      <4>1. m + 1 \in 1..n
        BY <2>0
      <4> QED BY <4>1
    <3>2. V(m) = {} \/ Ends(V(m))
      <4>1. m <= n
        BY ONLY <2>0, m \in Nat, n \in Nat
      <4> HIDE DEF V, Ends
      <4> QED BY <1>2, <4>1
    <3>3. V(m + 1) = V(m) \/ V(m + 1) = V(m) \cup {f[m + 1]}
      <4>1. CASE m + 1 \in J
        <5>1. Upto(m + 1) = Upto(m) \cup {m + 1}
          BY ONLY <1>0, <4>1, m \in Nat
        <5> QED BY <5>1
      <4>2. CASE m + 1 \notin J
        <5>1. Upto(m + 1) = Upto(m)
          BY ONLY <1>0, <4>2, m \in Nat
        <5> QED BY <5>1
      <4> QED BY <4>1, <4>2
    <3>4. PICK W, v : W = V(m) /\ v = f[m + 1]
      OBVIOUS
    <3>5. W = {} \/ Ends(W)
      BY <3>2, <3>4
    <3>6. W \subseteq Int /\ v \in Int
      BY <3>1, <3>4
    <3>7. Ends(W \cup {v})
      BY ONLY <3>5, <3>6
    <3>8. V(m + 1) = W \/ V(m + 1) = W \cup {v}
      BY <3>3, <3>4
    <3> HIDE DEF V, Ends
    <3> QED BY <3>5, <3>7, <3>8
  <2> HIDE DEF V, Ends
  <2> QED BY <2>0
<1>3. n \in G
  <2> HIDE DEF G
  <2> QED BY <1>1, <1>2, Induct
<1>4. PICK T : T = {f[i] : i \in J}
  OBVIOUS
<1>5. V(n) = T /\ T # {} /\ T \subseteq Int
  <2>1. Upto(n) = J
    BY ONLY <1>0
  <2> QED BY <1>4, <2>1
<1>6. Ends(T)
  <2>1. n <= n
    OBVIOUS
  <2>2. V(n) = {} \/ Ends(V(n))
    <3> HIDE DEF V, Ends
    <3> QED BY <1>3, <2>1
  <2> HIDE DEF V, Ends
  <2> QED BY <1>5, <2>2
<1>7. Max(T) \in T /\ Min(T) \in T
  BY ONLY <1>6 DEF Max, Min
<1> QED BY <1>4, <1>5, <1>7

\* The numbers of failures and the spans of a run are numbers.
LEMMA Measures ==
    ASSUME NEW run, Recorded(run), NEW s
    PROVE  failuresBySubsystem(run.failures, s) \in Nat /\ spanBySubsystem(run.events, s) \in Int
<1>1. PICK S, fs : fs = run.failures /\ fs \in Seq(S)
  BY DEF Recorded
<1>2. PICK T, es : es = run.events /\ es \in Seq(T) /\ \A i \in DOMAIN es : es[i].at \in Int
  BY DEF Recorded
<1>3. failuresBySubsystem(fs, s) \in Nat
  <2>1. PICK J : J = {i \in DOMAIN fs : SubsystemOrActuator(fs[i]) = s}
    OBVIOUS
  <2>2. J \subseteq 1..Len(fs) /\ Len(fs) \in Nat
    BY <1>1, <2>1
  <2>3. 1 \in Int /\ Len(fs) \in Int
    BY <2>2
  <2>4. IsFiniteSet(1..Len(fs))
    BY <2>3, FS_Interval
  <2>5. Cardinality(J) \in Nat
    BY <2>2, <2>4, FS_Subset, FS_CardinalityType
  <2> QED BY <2>1, <2>5 DEF failuresBySubsystem
<1>4. spanBySubsystem(es, s) \in Int
  <2>1. PICK J : J = {j \in DOMAIN es : EventSubsystem(es[j]) = s}
    OBVIOUS
  <2>2. PICK n \in Nat : n = Len(es) /\ DOMAIN es = 1..n
    BY <1>2
  <2>3. PICK f \in [1..n -> Int] : \A i \in 1..n : f[i] = es[i].at
    <3>1. [i \in 1..n |-> es[i].at] \in [1..n -> Int]
      BY <1>2, <2>2
    <3> QED BY <3>1
  <2>4. J \subseteq 1..n
    BY <2>1, <2>2
  <2>5. PICK U : U = {f[i] : i \in J}
    OBVIOUS
  <2>6. TimesIn(es, s) = U
    BY <2>1, <2>3, <2>4, <2>5 DEF TimesIn
  <2>7. CASE J = {}
    BY <2>5, <2>6, <2>7 DEF spanBySubsystem
  <2>8. CASE J # {}
    <3>1. Max(U) \in Int /\ Min(U) \in Int
      BY <2>4, <2>5, <2>8, Extremes
    <3> QED BY <2>6, <3>1 DEF spanBySubsystem
  <2> QED BY <2>7, <2>8
<1> QED BY <1>1, <1>2, <1>3, <1>4

\* indexFailures finds a failure of every key.
LEMMA IndexFinds ==
    ASSUME NEW S, NEW fs \in Seq(S), NEW k \in DOMAIN indexFailures(fs)
    PROVE  FailureKey(indexFailures(fs)[k]) = k
<1>1. k \in {FailureKey(fs[i]) : i \in DOMAIN fs} /\ indexFailures(fs)[k] = fs[FirstOf(fs, k)]
  BY DEF indexFailures
<1> DEFINE T == {i \in DOMAIN fs : FailureKey(fs[i]) = k}
<1>2. T \subseteq Nat /\ T # {}
  BY <1>1
<1>3. PICK i \in T : \A j \in T : i <= j
  <2> HIDE DEF T
  <2> QED BY <1>2, Least
<1>4. \A j \in 1..(i - 1) : FailureKey(fs[j]) # k
  <2> SUFFICES ASSUME NEW j \in 1..(i - 1), FailureKey(fs[j]) = k PROVE FALSE
    OBVIOUS
  <2>1. i \in 1..Len(fs) /\ Len(fs) \in Nat
    OBVIOUS
  <2>2. j \in DOMAIN fs /\ ~(i <= j)
    BY <2>1
  <2> QED BY <1>3, <2>2
<1>5. \E x \in DOMAIN fs : FailureKey(fs[x]) = k /\ \A j \in 1..(x - 1) : FailureKey(fs[j]) # k
  BY <1>4
<1>6. FailureKey(fs[FirstOf(fs, k)]) = k
  BY ONLY <1>5 DEF FirstOf
<1> QED BY <1>1, <1>6

\* What persists is what both runs index.
LEMMA KeysMirror ==
    ASSUME NEW S, NEW fs \in Seq(S), NEW T, NEW gs \in Seq(T)
    PROVE  LET index == indexFailures(fs)
               other == indexFailures(gs)
           IN  KeysOf(Changes(index, DOMAIN index \cap DOMAIN other)) = DOMAIN index \cap DOMAIN other
<1>1. PICK index, other : index = indexFailures(fs) /\ other = indexFailures(gs)
  OBVIOUS
<1>2. \A k \in DOMAIN index : FailureKey(index[k]) = k
  BY <1>1, IndexFinds
<1>3. \A k \in DOMAIN index : <<changeOf(index[k]).rule, changeOf(index[k]).actuator>> = k
  BY <1>2 DEF changeOf, FailureKey
<1>4. KeysOf(Changes(index, DOMAIN index \cap DOMAIN other))
        = {<<c.rule, c.actuator>> : c \in {changeOf(index[k]) : k \in DOMAIN index \cap DOMAIN other}}
  BY DEF KeysOf, Changes
<1>5. @ = {<<changeOf(index[k]).rule, changeOf(index[k]).actuator>> : k \in DOMAIN index \cap DOMAIN other}
  OBVIOUS
<1>6. @ = DOMAIN index \cap DOMAIN other
  BY <1>3
<1> QED BY <1>1, <1>4, <1>5, <1>6

\* What the actuators of one comparison were is what they are in the other.
LEMMA ActuatorsMirror ==
    ASSUME NEW x, NEW y
    PROVE  /\ {<<c.actuator, c.was>> : c \in actuatorChanges(x, y)}
                = {<<c.actuator, c.now>> : c \in actuatorChanges(y, x)}
           /\ actuatorChanges(x, x) = {}
<1>1. PICK A, B : A = actuatorSet(x) /\ B = actuatorSet(y)
  OBVIOUS
<1> DEFINE Row(s, was, now) == [actuator |-> s, was |-> was, now |-> now]
<1>2. actuatorChanges(x, y) = {Row(s, s \in A, s \in B) : s \in (A \ B) \cup (B \ A)}
  BY <1>1 DEF actuatorChanges
<1>3. actuatorChanges(y, x) = {Row(s, s \in B, s \in A) : s \in (B \ A) \cup (A \ B)}
  BY <1>1 DEF actuatorChanges
<1>0. \A s : /\ Row(s, s \in A, s \in B).actuator = s
             /\ Row(s, s \in A, s \in B).was = (s \in A)
             /\ Row(s, s \in B, s \in A).actuator = s
             /\ Row(s, s \in B, s \in A).now = (s \in A)
  BY Zenon
<1> HIDE DEF Row
<1>4. {<<c.actuator, c.was>> : c \in actuatorChanges(x, y)} = {<<s, s \in A>> : s \in (A \ B) \cup (B \ A)}
  <2>1. {<<c.actuator, c.was>> : c \in actuatorChanges(x, y)}
          = {<<Row(s, s \in A, s \in B).actuator, Row(s, s \in A, s \in B).was>> : s \in (A \ B) \cup (B \ A)}
    BY <1>2, Zenon
  <2>2. \A s : <<Row(s, s \in A, s \in B).actuator, Row(s, s \in A, s \in B).was>> = <<s, s \in A>>
    BY <1>0, Zenon
  <2> QED BY <2>1, <2>2
<1>5. {<<c.actuator, c.now>> : c \in actuatorChanges(y, x)} = {<<s, s \in A>> : s \in (B \ A) \cup (A \ B)}
  <2>1. {<<c.actuator, c.now>> : c \in actuatorChanges(y, x)}
          = {<<Row(s, s \in B, s \in A).actuator, Row(s, s \in B, s \in A).now>> : s \in (B \ A) \cup (A \ B)}
    BY <1>3, Zenon
  <2>2. \A s : <<Row(s, s \in B, s \in A).actuator, Row(s, s \in B, s \in A).now>> = <<s, s \in A>>
    BY <1>0, Zenon
  <2> QED BY <2>1, <2>2
<1>6. (A \ B) \cup (B \ A) = (B \ A) \cup (A \ B)
  OBVIOUS
<1>7. actuatorChanges(x, x) = {}
  BY DEF actuatorChanges
<1> QED BY <1>4, <1>5, <1>6, <1>7

\* The deltas of one comparison are those of the other, negated.
LEMMA DeltasMirror ==
    ASSUME Milli \in Nat \ {0}, NEW x, Recorded(x), NEW y, Recorded(y)
    PROVE  /\ {<<d.subsystem, d.failureDelta, d.spanDelta>> : d \in subsystemDeltas(x, y)}
                = {<<d.subsystem, -d.failureDelta, -d.spanDelta>> : d \in subsystemDeltas(y, x)}
           /\ \A d \in subsystemDeltas(x, x) : d.failureDelta = 0 /\ d.spanDelta = 0
<1> DEFINE N(r, s) == failuresBySubsystem(r.failures, s)
           T(r, s) == spanBySubsystem(r.events, s) \div Milli
<1>1. ASSUME NEW r, Recorded(r), NEW s PROVE N(r, s) \in Int /\ T(r, s) \in Int
  <2>1. PICK n, t : n = failuresBySubsystem(r.failures, s) /\ t = spanBySubsystem(r.events, s)
    OBVIOUS
  <2>2. n \in Nat /\ t \in Int
    BY <1>1, <2>1, Measures
  <2>3. t \div Milli \in Int
    BY <2>2
  <2> QED BY <2>1, <2>2, <2>3
<1> DEFINE Row(p, q, s) == [subsystem |-> s, failuresA |-> N(p, s), failuresB |-> N(q, s),
                            failureDelta |-> N(q, s) - N(p, s),
                            spanA |-> T(p, s), spanB |-> T(q, s), spanDelta |-> T(q, s) - T(p, s)]
<1>2. \A p, q : subsystemDeltas(p, q) = {Row(p, q, s) : s \in SubsystemsOf(p) \cup SubsystemsOf(q)}
  BY DEF subsystemDeltas
<1> HIDE DEF N, T
<1>3. ASSUME NEW s
      PROVE  /\ Row(x, y, s).failureDelta = -Row(y, x, s).failureDelta
             /\ Row(x, y, s).spanDelta = -Row(y, x, s).spanDelta
  <2>1. N(x, s) \in Int /\ T(x, s) \in Int /\ N(y, s) \in Int /\ T(y, s) \in Int
    BY <1>1
  <2> QED BY <2>1
<1>4. \A p, q, s : Row(p, q, s).subsystem = s
  OBVIOUS
<1>5. ASSUME NEW s PROVE Row(x, x, s).failureDelta = 0 /\ Row(x, x, s).spanDelta = 0
  <2>1. N(x, s) \in Int /\ T(x, s) \in Int
    BY <1>1
  <2> QED BY <2>1
<1> HIDE DEF Row
<1>6. {<<d.subsystem, d.failureDelta, d.spanDelta>> : d \in subsystemDeltas(x, y)}
        = {<<s, Row(x, y, s).failureDelta, Row(x, y, s).spanDelta>> : s \in SubsystemsOf(x) \cup SubsystemsOf(y)}
  BY <1>2, <1>4
<1>7. {<<d.subsystem, -d.failureDelta, -d.spanDelta>> : d \in subsystemDeltas(y, x)}
        = {<<s, -Row(y, x, s).failureDelta, -Row(y, x, s).spanDelta>> : s \in SubsystemsOf(y) \cup SubsystemsOf(x)}
  BY <1>2, <1>4
<1>8. {<<s, Row(x, y, s).failureDelta, Row(x, y, s).spanDelta>> : s \in SubsystemsOf(x) \cup SubsystemsOf(y)}
        = {<<s, -Row(y, x, s).failureDelta, -Row(y, x, s).spanDelta>> : s \in SubsystemsOf(y) \cup SubsystemsOf(x)}
  BY <1>3
<1> QED BY <1>2, <1>5, <1>6, <1>7, <1>8

\* Exchanging two recorded runs mirrors their comparison, and a run compared with
\* itself changed nothing, whatever their failures, their events and the length of
\* a millisecond (runcompare.go:86).
THEOREM ComparisonIsAMirror ==
    ASSUME Milli \in Nat \ {0}, Recorded(a), Recorded(b)
    PROVE  ComparisonMirrors
<1>1. PICK x, y : x = a /\ y = b
  OBVIOUS
<1>2. Recorded(x) /\ Recorded(y)
  BY <1>1
<1>3. PICK S, T, U, V : /\ x.failures \in Seq(S) /\ x.events \in Seq(T)
                        /\ y.failures \in Seq(U) /\ y.events \in Seq(V)
  BY <1>2 DEF Recorded
<1>4. PICK ix, iy : ix = indexFailures(x.failures) /\ iy = indexFailures(y.failures)
  OBVIOUS
<1>5. PICK xy, yx, xx : xy = Compare(x, y) /\ yx = Compare(y, x) /\ xx = Compare(x, x)
  OBVIOUS
<1>6. /\ xy.new = Changes(iy, DOMAIN iy \ DOMAIN ix)
      /\ xy.resolved = Changes(ix, DOMAIN ix \ DOMAIN iy)
      /\ xy.persisting = Changes(iy, DOMAIN ix \cap DOMAIN iy)
      /\ xy.actuators = actuatorChanges(ix, iy)
      /\ xy.deltas = subsystemDeltas(x, y)
  BY <1>4, <1>5 DEF Compare
<1>7. /\ yx.new = Changes(ix, DOMAIN ix \ DOMAIN iy)
      /\ yx.resolved = Changes(iy, DOMAIN iy \ DOMAIN ix)
      /\ yx.persisting = Changes(ix, DOMAIN iy \cap DOMAIN ix)
      /\ yx.actuators = actuatorChanges(iy, ix)
      /\ yx.deltas = subsystemDeltas(y, x)
  BY <1>4, <1>5 DEF Compare
<1>8. /\ xx.new = Changes(ix, DOMAIN ix \ DOMAIN ix)
      /\ xx.resolved = Changes(ix, DOMAIN ix \ DOMAIN ix)
      /\ xx.actuators = actuatorChanges(ix, ix)
      /\ xx.deltas = subsystemDeltas(x, x)
  BY <1>4, <1>5 DEF Compare
<1>9. xy.new = yx.resolved /\ xy.resolved = yx.new
  BY <1>6, <1>7
<1>10. KeysOf(xy.persisting) = KeysOf(yx.persisting)
  <2>1. KeysOf(Changes(ix, DOMAIN ix \cap DOMAIN iy)) = DOMAIN ix \cap DOMAIN iy
    BY <1>3, <1>4, KeysMirror
  <2>2. KeysOf(Changes(iy, DOMAIN iy \cap DOMAIN ix)) = DOMAIN iy \cap DOMAIN ix
    BY <1>3, <1>4, KeysMirror
  <2>3. DOMAIN ix \cap DOMAIN iy = DOMAIN iy \cap DOMAIN ix
    OBVIOUS
  <2> QED BY <1>6, <1>7, <2>1, <2>2, <2>3
<1>11. {<<c.actuator, c.was>> : c \in xy.actuators} = {<<c.actuator, c.now>> : c \in yx.actuators}
  BY <1>6, <1>7, ActuatorsMirror, Zenon
<1>12. /\ {<<d.subsystem, d.failureDelta, d.spanDelta>> : d \in xy.deltas}
            = {<<d.subsystem, -d.failureDelta, -d.spanDelta>> : d \in yx.deltas}
       /\ \A d \in xx.deltas : d.failureDelta = 0 /\ d.spanDelta = 0
  BY <1>2, <1>6, <1>7, <1>8, DeltasMirror, ZenonT(40)
<1>13. xx.new = {} /\ xx.resolved = {} /\ xx.actuators = {}
  <2>1. Changes(ix, DOMAIN ix \ DOMAIN ix) = {}
    BY DEF Changes
  <2> QED BY <1>8, <2>1, ActuatorsMirror
<1> QED BY <1>1, <1>5, <1>9, <1>10, <1>11, <1>12, <1>13, Zenon DEF ComparisonMirrors

Counted(c, n, s) == Cardinality({i \in 1..n : c[i] = s})
Pairs(c, n, K)   == UNION {{s} \X (1..Counted(c, n, s)) : s \in K}

\* The pairs of a kind and a number up to how many there are of it are as many as
\* what is counted.
LEMMA PairsCount ==
    ASSUME NEW n \in Nat, NEW K, NEW c \in [1..n -> K]
    PROVE  Cardinality(Pairs(c, n, K)) = n
<1> DEFINE At(m, s) == {i \in 1..m : c[i] = s}
           U(m) == UNION {{s} \X (1..Cardinality(At(m, s))) : s \in K}
           G == {m \in Nat : m <= n => IsFiniteSet(U(m)) /\ Cardinality(U(m)) = m}
<1>0. ASSUME NEW m \in Nat, NEW s PROVE IsFiniteSet(At(m, s)) /\ Cardinality(At(m, s)) \in Nat
  <2>1. 1 \in Int /\ m \in Int
    OBVIOUS
  <2>2. IsFiniteSet(1..m)
    BY <2>1, FS_Interval
  <2>3. At(m, s) \subseteq 1..m
    OBVIOUS
  <2> QED BY <2>2, <2>3, FS_Subset, FS_CardinalityType
<1>1. 0 \in G
  <2>1. \A s : At(0, s) = {}
    OBVIOUS
  <2>2. Cardinality({}) = 0 /\ IsFiniteSet({})
    BY FS_EmptySet
  <2>3. U(0) = {}
    BY <2>1, <2>2
  <2> HIDE DEF U
  <2> QED BY <2>2, <2>3
<1>2. ASSUME NEW m \in Nat, m \in G PROVE m + 1 \in G
  <2>0. ASSUME m + 1 <= n PROVE IsFiniteSet(U(m + 1)) /\ Cardinality(U(m + 1)) = m + 1
    <3>1. IsFiniteSet(U(m)) /\ Cardinality(U(m)) = m
      <4>1. m <= n
        BY ONLY <2>0, m \in Nat, n \in Nat
      <4> HIDE DEF U
      <4> QED BY <1>2, <4>1
    <3>2. PICK k \in K : k = c[m + 1]
      <4>1. m + 1 \in 1..n
        BY <2>0
      <4> QED BY <4>1
    <3>3. PICK q \in Nat : q = Cardinality(At(m, k))
      <4> HIDE DEF At
      <4> QED BY <1>0
    <3>4. Cardinality(At(m + 1, k)) = q + 1
      <4>1. At(m + 1, k) = At(m, k) \cup {m + 1} /\ m + 1 \notin At(m, k)
        BY <3>2
      <4> HIDE DEF At
      <4>2. IsFiniteSet(At(m, k))
        BY <1>0
      <4> QED BY <3>3, <4>1, <4>2, FS_AddElement
    <3>5. ASSUME NEW s \in K, s # k PROVE At(m + 1, s) = At(m, s)
      <4>1. c[m + 1] # s
        BY <3>2, <3>5
      <4> QED BY <4>1
    <3> HIDE DEF At
    <3>6. \A p : p \in U(m) <=> \E s \in K : \E j \in 1..Cardinality(At(m, s)) : p = <<s, j>>
      OBVIOUS
    <3>7. \A p : p \in U(m + 1) <=> \E s \in K : \E j \in 1..Cardinality(At(m + 1, s)) : p = <<s, j>>
      OBVIOUS
    <3> HIDE DEF U
    <3>8. \A j : j \in 1..(q + 1) <=> j \in 1..q \/ j = q + 1
      BY ONLY q \in Nat
    <3>9. ASSUME NEW p PROVE p \in U(m + 1) <=> p \in U(m) \/ p = <<k, q + 1>>
      <4>1. p \in U(m + 1) <=> \/ \E s \in K \ {k} : \E j \in 1..Cardinality(At(m, s)) : p = <<s, j>>
                               \/ \E j \in 1..(q + 1) : p = <<k, j>>
        BY <3>4, <3>5, <3>7
      <4>2. p \in U(m) <=> \/ \E s \in K \ {k} : \E j \in 1..Cardinality(At(m, s)) : p = <<s, j>>
                           \/ \E j \in 1..q : p = <<k, j>>
        BY <3>3, <3>6
      <4> QED BY <3>8, <4>1, <4>2
    <3>10. U(m + 1) = U(m) \cup {<<k, q + 1>>}
      BY <3>9
    <3>11. <<k, q + 1>> \notin U(m)
      <4>1. q + 1 \notin 1..q
        BY ONLY q \in Nat
      <4> QED BY <3>3, <3>6, <4>1
    <3> QED BY <3>1, <3>10, <3>11, FS_AddElement
  <2> HIDE DEF U
  <2> QED BY <2>0
<1>3. n \in G
  <2> HIDE DEF G
  <2> QED BY <1>1, <1>2, Induct
<1>4. n <= n
  OBVIOUS
<1>5. Cardinality(U(n)) = n
  <2> HIDE DEF U
  <2> QED BY <1>3, <1>4
<1> QED BY <1>5 DEF Counted, Pairs

\* What is stored of the failures and events of a run, finitely many.
LEMMA LoadedRun ==
    ASSUME NEW run, Recorded(run), NEW x, x = loadRunInput(run)
    PROVE  /\ x.events = run.events
           /\ \E n, S : n \in Nat /\ x.failures \in [1..n -> S] /\ n = Len(run.failures)
           /\ IsFiniteSet(SubsystemsOf(x))
           /\ \A i \in DOMAIN x.failures : SubsystemOrActuator(x.failures[i]) \in SubsystemsOf(x)
<1>1. PICK S, T : run \in [failures : Seq(S), events : Seq(T)]
  BY DEF Recorded
<1>2. PICK n \in Nat : n = Len(run.failures) /\ DOMAIN run.failures = 1..n
  BY <1>1
<1>3. PICK m \in Nat : m = Len(run.events) /\ DOMAIN run.events = 1..m
  BY <1>1
<1>4. x.events = run.events /\ x.failures = Stored(run.failures)
  BY <1>1 DEF loadRunInput
<1>5. DOMAIN x.failures = 1..n /\ x.failures \in [1..n -> Range(x.failures)]
  BY <1>2, <1>4 DEF Stored, Range
<1>6. \A i \in DOMAIN x.failures : SubsystemOrActuator(x.failures[i]) \in SubsystemsOf(x)
  BY DEF SubsystemsOf, Range
<1>7. \A i \in 1..m : EventSubsystem(x.events[i]) \in SubsystemsOf(x)
  BY <1>3, <1>4 DEF SubsystemsOf, Range
<1>8. \A s \in SubsystemsOf(x) : \/ \E i \in 1..n : s = SubsystemOrActuator(x.failures[i])
                                 \/ \E i \in 1..m : s = EventSubsystem(x.events[i])
  <2>1. PICK fs, es : fs = x.failures /\ es = x.events
    OBVIOUS
  <2>2. DOMAIN fs = 1..n /\ DOMAIN es = 1..m
    BY <1>3, <1>4, <1>5, <2>1
  <2>3. SubsystemsOf(x) = {SubsystemOrActuator(f) : f \in Range(fs)} \cup {EventSubsystem(e) : e \in Range(es)}
    BY <2>1 DEF SubsystemsOf
  <2>4. Range(fs) = {fs[i] : i \in 1..n} /\ Range(es) = {es[i] : i \in 1..m}
    BY <2>2 DEF Range
  <2> QED BY <2>1, <2>3, <2>4
<1>9. IsFiniteSet(SubsystemsOf(x))
  <2>1. 1 \in Int /\ n \in Int /\ m \in Int
    OBVIOUS
  <2>2. IsFiniteSet(1..n) /\ IsFiniteSet(1..m)
    BY <2>1, FS_Interval
  <2> DEFINE F == {SubsystemOrActuator(x.failures[i]) : i \in 1..n}
             E == {EventSubsystem(x.events[i]) : i \in 1..m}
             f == [i \in 1..n |-> SubsystemOrActuator(x.failures[i])]
             e == [i \in 1..m |-> EventSubsystem(x.events[i])]
  <2>3. f \in [1..n -> F] /\ \A t \in F : \E i \in 1..n : f[i] = t
    OBVIOUS
  <2>4. e \in [1..m -> E] /\ \A t \in E : \E i \in 1..m : e[i] = t
    OBVIOUS
  <2>5. SubsystemsOf(x) \subseteq F \cup E
    BY <1>8
  <2> HIDE DEF F, E, f, e
  <2>6. f \in Surjection(1..n, F) /\ e \in Surjection(1..m, E)
    BY <2>3, <2>4, Fun_IsSurj
  <2>7. IsFiniteSet(F) /\ IsFiniteSet(E)
    BY <2>2, <2>6, FS_Surjection
  <2>8. IsFiniteSet(F \cup E)
    BY <2>7, FS_Union
  <2> QED BY <2>5, <2>8, FS_Subset
<1> QED BY <1>2, <1>4, <1>5, <1>6, <1>9

\* One row per subsystem accounts for every failure.
LEMMA RowsAccount ==
    ASSUME NEW x, NEW n \in Nat, NEW S, x.failures \in [1..n -> S], NEW K,
           \A i \in DOMAIN x.failures : SubsystemOrActuator(x.failures[i]) \in K
    PROVE  Cardinality(UNION {{s} \X (1..failuresBySubsystem(x.failures, s)) : s \in K}) = n
<1>1. PICK fs \in [1..n -> S] : fs = x.failures
  OBVIOUS
<1>2. PICK c \in [1..n -> K] : \A i \in 1..n : c[i] = SubsystemOrActuator(fs[i])
  <2>1. [i \in 1..n |-> SubsystemOrActuator(fs[i])] \in [1..n -> K]
    BY <1>1
  <2> QED BY <2>1
<1>3. ASSUME NEW s PROVE {i \in DOMAIN fs : SubsystemOrActuator(fs[i]) = s} = {i \in 1..n : c[i] = s}
  BY <1>2
<1>4. \A s : failuresBySubsystem(fs, s) = Counted(c, n, s)
  BY <1>3 DEF failuresBySubsystem, Counted
<1>5. Cardinality(Pairs(c, n, K)) = n
  BY PairsCount
<1>6. {{s} \X (1..failuresBySubsystem(fs, s)) : s \in K} = {{s} \X (1..Counted(c, n, s)) : s \in K}
  BY <1>4
<1> QED BY <1>1, <1>5, <1>6 DEF Pairs

\* The parts of a finite set inside and outside another one.
LEMMA InsideAndOutside ==
    ASSUME NEW S, IsFiniteSet(S), NEW M
    PROVE  \E in, out \in Nat : /\ Cardinality(S \cap M) = in /\ Cardinality(S \ M) = out
                                /\ Cardinality(S) = in + out
<1>1. IsFiniteSet(S \ M) /\ IsFiniteSet(S \cap M)
  BY FS_Subset
<1>2. PICK X, Y : X = S \ M /\ Y = S \cap M
  OBVIOUS
<1>3. X \cup Y = S /\ X \cap Y = {} /\ IsFiniteSet(X) /\ IsFiniteSet(Y)
  BY <1>1, <1>2
<1>4. Cardinality(X \cup Y) = Cardinality(X) + Cardinality(Y) - Cardinality(X \cap Y)
  BY <1>3, FS_Union
<1>5. PICK out \in Nat, in \in Nat : out = Cardinality(X) /\ in = Cardinality(Y)
  BY <1>3, FS_CardinalityType
<1>6. Cardinality(X \cap Y) = 0
  BY <1>3, FS_EmptySet
<1>7. Cardinality(S) = out + in - 0
  BY <1>3, <1>4, <1>5, <1>6
<1>8. out + in - 0 = in + out
  OBVIOUS
<1> QED BY <1>2, <1>5, <1>7, <1>8

\* A row is right about its subsystem, but for the failures that got another name.
LEMMA RowCountsBut ==
    ASSUME NEW run, Recorded(run), NEW x, x = loadRunInput(run), NEW s
    PROVE  /\ CountsBut(failuresBySubsystem(x.failures, s), run, s)
           /\ s \notin SubsystemsOf(x) => NamedSo(run, s) \subseteq Misnamed(run)
<1>1. PICK S, T : run \in [failures : Seq(S), events : Seq(T)]
  BY DEF Recorded
<1>2. PICK n \in Nat : DOMAIN run.failures = 1..n
  BY <1>1
<1>3. DOMAIN x.failures = 1..n
  BY <1>1, <1>2 DEF loadRunInput, Stored
<1>4. PICK N, L, M : N = NamedSo(run, s) /\ L = NamedSo(x, s) /\ M = Misnamed(run)
  OBVIOUS
<1>5. /\ N = {i \in 1..n : SubsystemOrActuator(run.failures[i]) = s}
      /\ L = {i \in 1..n : SubsystemOrActuator(x.failures[i]) = s}
      /\ M = {i \in 1..n : SubsystemOrActuator(run.failures[i]) # SubsystemOrActuator(x.failures[i])}
  BY <1>2, <1>3, <1>4 DEF NamedSo, Misnamed
<1>6. PICK O : O = N \ M /\ O = L \ M
  BY <1>5
<1>7. IsFiniteSet(N) /\ IsFiniteSet(L)
  <2>1. IsFiniteSet(1..n)
    BY FS_Interval
  <2> QED BY <1>5, <2>1, FS_Subset
<1>8. Cardinality(L) + Cardinality(N \cap M) = Cardinality(N) + Cardinality(L \cap M)
  <2>1. PICK i \in Nat, o \in Nat : /\ Cardinality(N \cap M) = i /\ Cardinality(N \ M) = o
                                    /\ Cardinality(N) = i + o
    BY <1>7, InsideAndOutside
  <2>2. PICK j \in Nat, u \in Nat : /\ Cardinality(L \cap M) = j /\ Cardinality(L \ M) = u
                                    /\ Cardinality(L) = j + u
    BY <1>7, InsideAndOutside
  <2>3. o = u
    BY <1>6, <2>1, <2>2
  <2>4. (j + o) + i = (i + o) + j
    OBVIOUS
  <2> QED BY <2>1, <2>2, <2>3, <2>4
<1>9. failuresBySubsystem(x.failures, s) = Cardinality(L)
  BY <1>3, <1>5 DEF failuresBySubsystem
<1>10. CountsBut(failuresBySubsystem(x.failures, s), run, s)
  BY <1>4, <1>8, <1>9 DEF CountsBut
<1>11. ASSUME NEW i \in N, i \notin M PROVE s \in SubsystemsOf(x)
  BY <1>3, <1>5, <1>11 DEF SubsystemsOf, Range
<1> QED BY <1>4, <1>10, <1>11

\* The rows of a comparison account for every failure of either run, in one row per
\* name, and are right about their subsystems but for the failures whose subsystem the
\* store did not keep, for every two recorded runs (docs/run-comparison.md:41-44).
THEOREM DeltasAccount ==
    ASSUME Recorded(a), Recorded(b)
    PROVE  DeltasAccountForFailures
<1>1. PICK ra, rb : ra = a /\ rb = b
  OBVIOUS
<1>2. PICK x, y : x = loadRunInput(ra) /\ y = loadRunInput(rb)
  OBVIOUS
<1>3. PICK K : K = SubsystemsOf(x) \cup SubsystemsOf(y)
  OBVIOUS
<1>4. Recorded(ra) /\ Recorded(rb)
  BY <1>1
<1>5. IsFiniteSet(K)
  <2>1. IsFiniteSet(SubsystemsOf(x)) /\ IsFiniteSet(SubsystemsOf(y))
    BY <1>2, <1>4, LoadedRun
  <2> QED BY <1>3, <2>1, FS_Union
<1> DEFINE M(s) == LET failA == failuresBySubsystem(x.failures, s)
                       failB == failuresBySubsystem(y.failures, s)
                       spanA == spanBySubsystem(x.events, s) \div Milli
                       spanB == spanBySubsystem(y.events, s) \div Milli
                   IN  [subsystem |-> s, failuresA |-> failA, failuresB |-> failB,
                        failureDelta |-> failB - failA,
                        spanA |-> spanA, spanB |-> spanB, spanDelta |-> spanB - spanA]
           NA(s) == failuresBySubsystem(x.failures, s)
           NB(s) == failuresBySubsystem(y.failures, s)
<1>6. PICK D : D = Compare(x, y).deltas
  OBVIOUS
<1>7. D = {M(s) : s \in K}
  BY <1>3, <1>6 DEF Compare, subsystemDeltas
<1>8. \A s : M(s).subsystem = s /\ M(s).failuresA = NA(s) /\ M(s).failuresB = NB(s)
  OBVIOUS
<1> HIDE DEF M, NA, NB
<1>9. Cardinality(UNION {{d.subsystem} \X (1..d.failuresA) : d \in D}) = Len(ra.failures)
  <2>1. {{d.subsystem} \X (1..d.failuresA) : d \in D} = {{s} \X (1..NA(s)) : s \in K}
    BY <1>7, <1>8
  <2>2. \A i \in DOMAIN x.failures : SubsystemOrActuator(x.failures[i]) \in K
    BY <1>2, <1>3, <1>4, LoadedRun
  <2>3. PICK n, S : n \in Nat /\ x.failures \in [1..n -> S] /\ n = Len(ra.failures)
    BY <1>2, <1>4, LoadedRun
  <2>4. Cardinality(UNION {{s} \X (1..failuresBySubsystem(x.failures, s)) : s \in K}) = n
    BY <2>2, <2>3, RowsAccount
  <2> QED BY <2>1, <2>3, <2>4 DEF NA
<1>10. Cardinality(UNION {{d.subsystem} \X (1..d.failuresB) : d \in D}) = Len(rb.failures)
  <2>1. {{d.subsystem} \X (1..d.failuresB) : d \in D} = {{s} \X (1..NB(s)) : s \in K}
    BY <1>7, <1>8
  <2>2. \A i \in DOMAIN y.failures : SubsystemOrActuator(y.failures[i]) \in K
    BY <1>2, <1>3, <1>4, LoadedRun
  <2>3. PICK n, S : n \in Nat /\ y.failures \in [1..n -> S] /\ n = Len(rb.failures)
    BY <1>2, <1>4, LoadedRun
  <2>4. Cardinality(UNION {{s} \X (1..failuresBySubsystem(y.failures, s)) : s \in K}) = n
    BY <2>2, <2>3, RowsAccount
  <2> QED BY <2>1, <2>3, <2>4 DEF NB
<1>11. Cardinality({d.subsystem : d \in D}) = Cardinality(D)
  <2> DEFINE g == [s \in K |-> M(s)]
  <2>1. {d.subsystem : d \in D} = K
    BY <1>7, <1>8
  <2>2. g \in [K -> D] /\ \A d \in D : \E s \in K : g[s] = d
    BY <1>7
  <2>3. \A s \in K : g[s].subsystem = s
    BY <1>8
  <2> HIDE DEF g
  <2>4. \A s, t \in K : g[s] = g[t] => s = t
    BY <2>3
  <2>5. g \in Injection(K, D) /\ g \in Surjection(K, D)
    BY <2>2, <2>4, Fun_IsInj, Fun_IsSurj
  <2>6. ExistsBijection(K, D)
    BY <2>5 DEF Bijection, ExistsBijection
  <2> QED BY <1>5, <2>1, <2>6, FS_Bijection
<1>12. {d.subsystem : d \in D} = K
  BY <1>7, <1>8
<1>13. ASSUME NEW d \in D
       PROVE  CountsBut(d.failuresA, ra, d.subsystem) /\ CountsBut(d.failuresB, rb, d.subsystem)
  <2>1. PICK s \in K : d = M(s)
    BY <1>7
  <2>2. CountsBut(NA(s), ra, s) /\ CountsBut(NB(s), rb, s)
    BY <1>2, <1>4, RowCountsBut DEF NA, NB
  <2> QED BY <1>8, <2>1, <2>2
<1>14. ASSUME NEW s \in (SubsystemsOf(ra) \cup SubsystemsOf(rb)) \ K
       PROVE  NamedSo(ra, s) \subseteq Misnamed(ra) /\ NamedSo(rb, s) \subseteq Misnamed(rb)
  <2>1. s \notin SubsystemsOf(x) /\ s \notin SubsystemsOf(y)
    BY <1>3
  <2> QED BY <1>2, <1>4, <2>1, RowCountsBut
<1>15. \A s \in (SubsystemsOf(ra) \cup SubsystemsOf(rb)) \ {d.subsystem : d \in D} :
           NamedSo(ra, s) \subseteq Misnamed(ra) /\ NamedSo(rb, s) \subseteq Misnamed(rb)
  BY <1>12, <1>14
<1> QED BY <1>1, <1>2, <1>6, <1>9, <1>10, <1>11, <1>13, <1>15 DEF DeltasAccountForFailures

-----------------------------------------------------------------------------
(* The lists *)

\* The second and the two digits of a time.
LEMMA Digits ==
    ASSUME NEW t \in Nat
    PROVE  \E q \in Nat, d, e \in 0..9 :
               /\ t = 100 * q + 10 * d + e
               /\ t \div Second = q /\ t % Second = 10 * d + e
               /\ (t % Second) \div 10 = d /\ t % 10 = e
<1>1. PICK q \in Nat, r \in 0..99 : q = t \div 100 /\ r = t % 100 /\ t = 100 * q + r
  OBVIOUS
<1>2. PICK d \in 0..9, e \in 0..9 : d = r \div 10 /\ e = r % 10 /\ r = 10 * d + e
  OBVIOUS
<1>3. t % 10 = e
  <2>1. t = 10 * (10 * q + d) + e
    BY <1>1, <1>2
  <2> QED BY ONLY <2>1, q \in Nat, d \in 0..9, e \in 0..9, t \in Nat
<1> QED BY <1>1, <1>2, <1>3 DEF Second

\* The text of a time: its second, its fraction and the Z.
LEMMA Characters ==
    ASSUME NEW t \in Nat, NEW F \in Seq(Int), F = Fraction(t), NEW n, n = Len(F)
    PROVE  /\ Text(t) \in Seq(Int) /\ Len(Text(t)) = n + 2
           /\ Text(t)[1] = t \div Second /\ Text(t)[n + 2] = Zulu
           /\ \A i \in 1..n : Text(t)[i + 1] = F[i]
<1>1. PICK q \in Int : q = t \div Second
  BY DEF Second
<1>2. F \in Seq(Int) /\ Len(F) = n /\ n \in Nat
  OBVIOUS
<1>3. <<q>> \in Seq(Int) /\ Len(<<q>>) = 1 /\ <<q>>[1] = q
  OBVIOUS
<1>4. <<Zulu>> \in Seq(Int) /\ Len(<<Zulu>>) = 1 /\ <<Zulu>>[1] = Zulu
  BY DEF Zulu
<1>5. PICK A, B : A = <<q>> /\ B = <<Zulu>>
  OBVIOUS
<1>6. A \in Seq(Int) /\ Len(A) = 1 /\ A[1] = q /\ B \in Seq(Int) /\ Len(B) = 1 /\ B[1] = Zulu
  BY <1>3, <1>4, <1>5
<1>7. PICK C : C = A \o F
  OBVIOUS
<1>8. C \in Seq(Int) /\ Len(C) = n + 1 /\ C[1] = q /\ \A i \in 1..n : C[i + 1] = F[i]
  <2>1. A \o F \in Seq(Int) /\ Len(A \o F) = Len(A) + Len(F)
    BY <1>2, <1>6, ConcatProperties
  <2>2. \A i \in 1..(Len(A) + Len(F)) : (A \o F)[i] = IF i <= Len(A) THEN A[i] ELSE F[i - Len(A)]
    BY <1>2, <1>6, ConcatProperties
  <2>0. Len(C) = 1 + n /\ \A i \in 1..(1 + n) : C[i] = IF i <= 1 THEN A[i] ELSE F[i - 1]
    BY <1>2, <1>6, <1>7, <2>1, <2>2
  <2>3. C[1] = q
    <3>1. 1 \in 1..(1 + n) /\ 1 <= 1
      BY <1>2
    <3> QED BY <1>6, <2>0, <3>1
  <2>4. ASSUME NEW i \in 1..n PROVE C[i + 1] = F[i]
    <3>1. i + 1 \in 1..(1 + n) /\ ~(i + 1 <= 1) /\ i + 1 - 1 = i
      BY <1>2
    <3> QED BY <2>0, <3>1
  <2> QED BY <1>2, <1>6, <1>7, <2>0, <2>1, <2>3, <2>4
<1>9. PICK D : D = C \o B
  OBVIOUS
<1>10. D \in Seq(Int) /\ Len(D) = n + 2 /\ D[1] = q /\ D[n + 2] = Zulu /\ \A i \in 1..n : D[i + 1] = F[i]
  <2>1. C \o B \in Seq(Int) /\ Len(C \o B) = Len(C) + Len(B)
    BY <1>6, <1>8, ConcatProperties
  <2>2. \A i \in 1..(Len(C) + Len(B)) : (C \o B)[i] = IF i <= Len(C) THEN C[i] ELSE B[i - Len(C)]
    BY <1>6, <1>8, ConcatProperties
  <2> QED BY <1>6, <1>8, <1>9, <2>1, <2>2
<1>11. Text(t) = D
  BY <1>1, <1>5, <1>7, <1>9 DEF Text
<1> QED BY <1>1, <1>10, <1>11

\* The fraction by its digits.
LEMMA NoFraction ==
    ASSUME NEW t \in Nat, t % Second = 0
    PROVE  Fraction(t) = <<>>
BY Zenon DEF Fraction

LEMMA OneDigit ==
    ASSUME NEW t \in Nat, t % Second # 0, t % 10 = 0
    PROVE  Fraction(t) = <<0, ((t % Second) \div 10) + 1>>
<1>1. Fraction(t) = <<Point, Digit((t % Second) \div 10)>>
  BY Zenon DEF Fraction
<1> QED BY <1>1 DEF Point, Digit

LEMMA TwoDigits ==
    ASSUME NEW t \in Nat, t % Second # 0, t % 10 # 0
    PROVE  Fraction(t) = <<0, ((t % Second) \div 10) + 1, (t % 10) + 1>>
<1>1. Fraction(t) = <<Point, Digit((t % Second) \div 10), Digit(t % 10)>>
  BY Zenon DEF Fraction
<1> QED BY <1>1 DEF Point, Digit

\* The characters of a time, whose second is q and whose digits are d and e.
Spelled(t, q, d, e) ==
    LET x == Text(t)
        F == Fraction(t)
        n == Len(x)
    IN  /\ x \in Seq(Int) /\ x[1] = q
        /\ d = 0 /\ e = 0 => F = <<>> /\ n = 2
        /\ d # 0 /\ e = 0 => F = <<0, d + 1>> /\ n = 4
        /\ e # 0 => F = <<0, d + 1, e + 1>> /\ n = 5 /\ x[4] = e + 1
        /\ ~(d = 0 /\ e = 0) => x[2] = 0 /\ x[3] = d + 1

LEMMA Shape ==
    ASSUME NEW t \in Nat, NEW q \in Nat, NEW d \in 0..9, NEW e \in 0..9,
           t \div Second = q, t % Second = 10 * d + e, (t % Second) \div 10 = d, t % 10 = e
    PROVE  Spelled(t, q, d, e)
<1>1. CASE d = 0 /\ e = 0
  <2>1. t % Second = 0
    BY <1>1
  <2>2. Fraction(t) = <<>>
    BY <2>1, NoFraction
  <2>3. PICK F : F = Fraction(t)
    OBVIOUS
  <2>4. F \in Seq(Int) /\ Len(F) = 0
    BY <2>2, <2>3
  <2>5. Text(t) \in Seq(Int) /\ Len(Text(t)) = 0 + 2 /\ Text(t)[1] = t \div Second
    BY <2>3, <2>4, Characters
  <2> QED BY <1>1, <2>2, <2>5 DEF Spelled
<1>2. CASE d # 0 /\ e = 0
  <2>1. t % Second # 0 /\ t % 10 = 0
    BY <1>2
  <2>2. Fraction(t) = <<0, d + 1>>
    BY <2>1, OneDigit
  <2>3. PICK F : F = Fraction(t)
    OBVIOUS
  <2>4. F \in Seq(Int) /\ Len(F) = 2 /\ F[1] = 0 /\ F[2] = d + 1
    BY <2>2, <2>3
  <2>5. /\ Text(t) \in Seq(Int) /\ Len(Text(t)) = 2 + 2 /\ Text(t)[1] = t \div Second
        /\ \A i \in 1..2 : Text(t)[i + 1] = F[i]
    <3>1. PICK n : n = 2
      OBVIOUS
    <3>2. F \in Seq(Int) /\ F = Fraction(t) /\ n = Len(F)
      BY <2>3, <2>4, <3>1
    <3>3. /\ Text(t) \in Seq(Int) /\ Len(Text(t)) = n + 2 /\ Text(t)[1] = t \div Second
          /\ \A i \in 1..n : Text(t)[i + 1] = F[i]
      BY ONLY t \in Nat, <3>2, Characters, ZenonT(60)
    <3> QED BY <3>1, <3>3
  <2>6. Text(t)[2] = 0 /\ Text(t)[3] = d + 1
    <3>1. Text(t)[1 + 1] = F[1] /\ Text(t)[2 + 1] = F[2]
      BY <2>5
    <3> QED BY <2>4, <3>1
  <2> QED BY <1>2, <2>2, <2>5, <2>6 DEF Spelled
<1>3. CASE e # 0
  <2>1. t % Second # 0 /\ t % 10 # 0
    BY <1>3
  <2>2. Fraction(t) = <<0, d + 1, e + 1>>
    BY <2>1, TwoDigits
  <2>3. PICK F : F = Fraction(t)
    OBVIOUS
  <2>4. F \in Seq(Int) /\ Len(F) = 3 /\ F[1] = 0 /\ F[2] = d + 1 /\ F[3] = e + 1
    BY <2>2, <2>3
  <2>5. /\ Text(t) \in Seq(Int) /\ Len(Text(t)) = 3 + 2 /\ Text(t)[1] = t \div Second
        /\ \A i \in 1..3 : Text(t)[i + 1] = F[i]
    <3>1. PICK n : n = 3
      OBVIOUS
    <3>2. F \in Seq(Int) /\ F = Fraction(t) /\ n = Len(F)
      BY <2>3, <2>4, <3>1
    <3>3. /\ Text(t) \in Seq(Int) /\ Len(Text(t)) = n + 2 /\ Text(t)[1] = t \div Second
          /\ \A i \in 1..n : Text(t)[i + 1] = F[i]
      BY ONLY t \in Nat, <3>2, Characters, ZenonT(60)
    <3> QED BY <3>1, <3>3
  <2>6. Text(t)[2] = 0 /\ Text(t)[3] = d + 1 /\ Text(t)[4] = e + 1
    <3>1. Text(t)[1 + 1] = F[1] /\ Text(t)[2 + 1] = F[2] /\ Text(t)[3 + 1] = F[3]
      BY <2>5
    <3> QED BY <2>4, <3>1
  <2> QED BY <1>3, <2>2, <2>5, <2>6 DEF Spelled
<1> QED BY <1>1, <1>2, <1>3

\* Of two texts that agree up to a position, that with the smaller code is before.
LEMMA Before ==
    ASSUME NEW S, NEW x \in Seq(S), NEW y \in Seq(S), NEW i \in DOMAIN x \cap DOMAIN y,
           \A j \in 1..(i - 1) : x[j] = y[j], x[i] < y[i]
    PROVE  TextBefore(x, y)
<1>1. i - 1 <= Len(x) /\ i - 1 <= Len(y) /\ i \in Nat /\ i >= 1
  OBVIOUS
<1>2. SubSeq(x, 1, i - 1) = [j \in 1..(i - 1) |-> x[j]] /\ SubSeq(y, 1, i - 1) = [j \in 1..(i - 1) |-> y[j]]
  BY <1>1
<1>3. SubSeq(x, 1, i - 1) = SubSeq(y, 1, i - 1)
  BY <1>2
<1> QED BY <1>3 DEF TextBefore

\* A text that is not before that of a later time differs from it in the fraction only,
\* and ends in the middle of it.
LEMMA Textual ==
    ASSUME NEW x \in Nat, NEW y \in Nat, ~TextBefore(Text(x), Text(y))
    PROVE  OnlyByText(x, y)
<1> SUFFICES ASSUME y > x
             PROVE  x \div Second = y \div Second /\ IsStrictPrefix(Fraction(x), Fraction(y))
  BY DEF OnlyByText
<1>1. PICK q \in Nat, d \in 0..9, e \in 0..9 :
          /\ x = 100 * q + 10 * d + e
          /\ x \div Second = q /\ x % Second = 10 * d + e
          /\ (x % Second) \div 10 = d /\ x % 10 = e
  BY Digits
<1>2. PICK p \in Nat, f \in 0..9, g \in 0..9 :
          /\ y = 100 * p + 10 * f + g
          /\ y \div Second = p /\ y % Second = 10 * f + g
          /\ (y % Second) \div 10 = f /\ y % 10 = g
  BY Digits
<1>3. Spelled(x, q, d, e) /\ Spelled(y, p, f, g)
  BY <1>1, <1>2, Shape
<1>4. /\ d = 0 /\ e = 0 => Fraction(x) = <<>>
      /\ d # 0 /\ e = 0 => Fraction(x) = <<0, d + 1>>
      /\ g # 0 => Fraction(y) = <<0, f + 1, g + 1>>
      /\ f # 0 /\ g = 0 => Fraction(y) = <<0, f + 1>>
  BY <1>3 DEF Spelled
<1>5. PICK X, Y : X = Text(x) /\ Y = Text(y)
  OBVIOUS
<1>6. X \in Seq(Int) /\ X[1] = q /\ Len(X) \in {2, 4, 5} /\ Y \in Seq(Int) /\ Y[1] = p /\ Len(Y) \in {2, 4, 5}
  BY <1>3, <1>5 DEF Spelled
<1>7. p = q
  <2>1. ~(q < p)
    <3>1. SUFFICES ASSUME q < p PROVE TextBefore(X, Y)
      BY <1>5
    <3>2. 1 \in DOMAIN X \cap DOMAIN Y
      BY <1>6
    <3>3. \A j \in 1..(1 - 1) : X[j] = Y[j]
      OBVIOUS
    <3>4. X[1] < Y[1]
      BY <1>6, <3>1
    <3> QED BY <1>6, <3>2, <3>3, <3>4, Before
  <2>2. 100 * q + 10 * d + e < 100 * p + 10 * f + g
    BY <1>1, <1>2
  <2> QED BY ONLY <2>1, <2>2, q \in Nat, p \in Nat, d \in 0..9, e \in 0..9, f \in 0..9, g \in 0..9
<1>8. 10 * d + e < 10 * f + g
  <2>1. 100 * q + 10 * d + e < 100 * p + 10 * f + g
    BY <1>1, <1>2
  <2> QED BY ONLY <1>7, <2>1, q \in Nat, p \in Nat, d \in 0..9, e \in 0..9, f \in 0..9, g \in 0..9
<1>9. f # 0 \/ g # 0
  BY ONLY <1>8, d \in 0..9, e \in 0..9
<1>10. Fraction(y) = <<0, f + 1>> \/ Fraction(y) = <<0, f + 1, g + 1>>
  BY <1>4, <1>9
<1>11. CASE d = 0 /\ e = 0
  <2>1. Fraction(x) = <<>>
    BY <1>4, <1>11
  <2>2. IsStrictPrefix(<<>>, <<0, f + 1>>) /\ IsStrictPrefix(<<>>, <<0, f + 1, g + 1>>)
    BY DEF IsStrictPrefix, IsPrefix
  <2> QED BY <1>1, <1>2, <1>7, <1>10, <2>1, <2>2
<1>12. CASE ~(d = 0 /\ e = 0)
  <2>1. /\ X[1] = Y[1] /\ X[2] = Y[2] /\ X[3] = d + 1 /\ Y[3] = f + 1
        /\ Len(X) \in {4, 5} /\ Len(Y) \in {4, 5}
        /\ e # 0 /\ g # 0 => X[4] = e + 1 /\ Y[4] = g + 1
    BY <1>3, <1>5, <1>6, <1>7, <1>9, <1>12 DEF Spelled
  <2>2. d = f
    <3>1. ~(d < f)
      <4>1. SUFFICES ASSUME d < f PROVE TextBefore(X, Y)
        BY <1>5
      <4>2. 3 \in DOMAIN X \cap DOMAIN Y
        BY ONLY <1>6, <2>1, SMTT(30)
      <4>3. \A j \in 1..(3 - 1) : X[j] = Y[j]
        BY <2>1
      <4>4. X[3] < Y[3]
        BY <2>1, <4>1
      <4> QED BY <1>6, <4>2, <4>3, <4>4, Before
    <3> QED BY ONLY <3>1, <1>8, d \in 0..9, e \in 0..9, f \in 0..9, g \in 0..9
  <2>3. e < g
    BY ONLY <2>2, <1>8, d \in 0..9, e \in 0..9, f \in 0..9, g \in 0..9
  <2>4. e = 0
    <3>1. SUFFICES ASSUME e # 0 PROVE TextBefore(X, Y)
      BY <1>5
    <3>2. 4 \in DOMAIN X \cap DOMAIN Y
      <4>1. X \in Seq(Int) /\ Len(X) \in {4, 5} /\ Y \in Seq(Int) /\ Len(Y) \in {4, 5}
        BY <1>6, <2>1
      <4> QED BY ONLY <4>1
    <3>3. X[3] = Y[3] /\ X[4] < Y[4]
      BY <2>1, <2>2, <2>3, <3>1
    <3>4. \A j \in 1..(4 - 1) : X[j] = Y[j]
      BY <2>1, <3>3
    <3> QED BY <1>6, <3>2, <3>3, <3>4, Before
  <2>5. Fraction(x) = <<0, d + 1>> /\ Fraction(y) = <<0, d + 1, g + 1>>
    BY <1>4, <1>12, <2>2, <2>3, <2>4
  <2>6. IsStrictPrefix(<<0, d + 1>>, <<0, d + 1, g + 1>>)
    BY DEF IsStrictPrefix, IsPrefix
  <2> QED BY <1>1, <1>2, <1>7, <2>5, <2>6
<1> QED BY <1>11, <1>12

\* The table of runs is made from one event to the next.
LEMMA RunsLoop ==
    ASSUME NEW S, NEW w \in Seq(S)
    PROVE  \E s : /\ s[0] = <<>>
                  /\ \A n \in 1..Len(w) : s[n] = RecordRun(s[n - 1], w[n])
                  /\ RunsTable(w) = s[Len(w)]
<1> DEFINE Rec(f, n) == f = [m \in 0..n |-> IF m = 0 THEN <<>> ELSE RecordRun(f[m - 1], w[m])]
           Good == {n \in Nat : \E f : Rec(f, n)}
<1>1. 0 \in Good
  <2>1. Rec([m \in 0..0 |-> <<>>], 0)
    OBVIOUS
  <2> QED BY <2>1
<1>2. ASSUME NEW n \in Nat, n \in Good PROVE n + 1 \in Good
  <2>1. PICK f : Rec(f, n)
    BY <1>2
  <2> DEFINE g == [m \in 0..(n + 1) |-> IF m = n + 1 THEN RecordRun(f[n], w[m]) ELSE f[m]]
  <2>2. ASSUME NEW m \in 0..(n + 1) PROVE g[m] = IF m = 0 THEN <<>> ELSE RecordRun(g[m - 1], w[m])
    <3>1. CASE m = 0
      <4>1. f[0] = <<>>
        BY <2>1
      <4> QED BY <4>1, <3>1
    <3>2. CASE m = n + 1
      <4>1. g[m - 1] = f[n] /\ g[m] = RecordRun(f[n], w[m])
        <5> HIDE DEF Rec
        <5> QED BY <3>2
      <4> QED BY ONLY <4>1, <3>2, n \in Nat
    <3>3. CASE m # 0 /\ m # n + 1
      <4>1. m \in 0..n /\ m - 1 \in 0..n
        BY <3>3
      <4>2. f[m] = RecordRun(f[m - 1], w[m])
        BY <2>1, <4>1, <3>3
      <4>3. g[m - 1] = f[m - 1] /\ g[m] = f[m]
        BY <4>1, <3>3
      <4> QED BY ONLY <4>2, <4>3, <3>3
    <3> QED BY <3>1, <3>2, <3>3
  <2>3. Rec(g, n + 1)
    <3>1. g = [m \in 0..(n + 1) |-> g[m]]
      OBVIOUS
    <3> HIDE DEF g
    <3> QED BY <2>2, <3>1
  <2>4. \E h : Rec(h, n + 1)
    <3> HIDE DEF Rec, g
    <3> QED BY <2>3
  <2> QED BY <2>4
<1>3. Len(w) \in Good
  <2> HIDE DEF Good
  <2>1. Len(w) \in Nat
    OBVIOUS
  <2> QED BY <1>1, <1>2, <2>1, Induct
<1> DEFINE loop == CHOOSE f : Rec(f, Len(w))
<1>4. Rec(loop, Len(w))
  <2>1. \E f : Rec(f, Len(w))
    BY <1>3
  <2> HIDE DEF Rec
  <2> QED BY <2>1
<1>5. RunsTable(w) = loop[Len(w)]
  BY DEF RunsTable
<1>6. PICK s : s = loop
  OBVIOUS
<1> HIDE DEF loop
<1>7. s = [m \in 0..Len(w) |-> IF m = 0 THEN <<>> ELSE RecordRun(s[m - 1], w[m])]
  BY <1>4, <1>6
<1>8. Len(w) \in Nat
  OBVIOUS
<1> HIDE DEF Rec, Good
<1>9. s[0] = <<>> /\ \A n \in 1..Len(w) : s[n] = RecordRun(s[n - 1], w[n])
  BY ONLY <1>7, <1>8
<1> QED BY <1>5, <1>6, <1>9

\* The table of incidents is made from one snapshot to the next.
LEMMA IncidentsLoop ==
    ASSUME NEW S, NEW w \in Seq(S)
    PROVE  \E s : /\ s[0] = <<>>
                  /\ \A n \in 1..Len(w) : s[n] = RecordStart(s[n - 1], w[n])
                  /\ IncidentsTable(w) = s[Len(w)]
<1> DEFINE Rec(f, n) == f = [m \in 0..n |-> IF m = 0 THEN <<>> ELSE RecordStart(f[m - 1], w[m])]
           Good == {n \in Nat : \E f : Rec(f, n)}
<1>1. 0 \in Good
  <2>1. Rec([m \in 0..0 |-> <<>>], 0)
    OBVIOUS
  <2> QED BY <2>1
<1>2. ASSUME NEW n \in Nat, n \in Good PROVE n + 1 \in Good
  <2>1. PICK f : Rec(f, n)
    BY <1>2
  <2> DEFINE g == [m \in 0..(n + 1) |-> IF m = n + 1 THEN RecordStart(f[n], w[m]) ELSE f[m]]
  <2>2. ASSUME NEW m \in 0..(n + 1) PROVE g[m] = IF m = 0 THEN <<>> ELSE RecordStart(g[m - 1], w[m])
    <3>1. CASE m = 0
      <4>1. f[0] = <<>>
        BY <2>1
      <4> QED BY <4>1, <3>1
    <3>2. CASE m = n + 1
      <4>1. g[m - 1] = f[n] /\ g[m] = RecordStart(f[n], w[m])
        <5> HIDE DEF Rec
        <5> QED BY <3>2
      <4> QED BY ONLY <4>1, <3>2, n \in Nat
    <3>3. CASE m # 0 /\ m # n + 1
      <4>1. m \in 0..n /\ m - 1 \in 0..n
        BY <3>3
      <4>2. f[m] = RecordStart(f[m - 1], w[m])
        BY <2>1, <4>1, <3>3
      <4>3. g[m - 1] = f[m - 1] /\ g[m] = f[m]
        BY <4>1, <3>3
      <4> QED BY ONLY <4>2, <4>3, <3>3
    <3> QED BY <3>1, <3>2, <3>3
  <2>3. Rec(g, n + 1)
    <3>1. g = [m \in 0..(n + 1) |-> g[m]]
      OBVIOUS
    <3> HIDE DEF g
    <3> QED BY <2>2, <3>1
  <2>4. \E h : Rec(h, n + 1)
    <3> HIDE DEF Rec, g
    <3> QED BY <2>3
  <2> QED BY <2>4
<1>3. Len(w) \in Good
  <2> HIDE DEF Good
  <2>1. Len(w) \in Nat
    OBVIOUS
  <2> QED BY <1>1, <1>2, <2>1, Induct
<1> DEFINE loop == CHOOSE f : Rec(f, Len(w))
<1>4. Rec(loop, Len(w))
  <2>1. \E f : Rec(f, Len(w))
    BY <1>3
  <2> HIDE DEF Rec
  <2> QED BY <2>1
<1>5. IncidentsTable(w) = loop[Len(w)]
  BY DEF IncidentsTable
<1>6. PICK s : s = loop
  OBVIOUS
<1> HIDE DEF loop
<1>7. s = [m \in 0..Len(w) |-> IF m = 0 THEN <<>> ELSE RecordStart(s[m - 1], w[m])]
  BY <1>4, <1>6
<1>8. Len(w) \in Nat
  OBVIOUS
<1> HIDE DEF Rec, Good
<1>9. s[0] = <<>> /\ \A n \in 1..Len(w) : s[n] = RecordStart(s[n - 1], w[n])
  BY ONLY <1>7, <1>8
<1> QED BY <1>5, <1>6, <1>9

\* An event dates its run and no other.
LEMMA RunRecorded ==
    ASSUME NEW rows, NEW e, \A n \in DOMAIN rows : "last" \in DOMAIN rows[n]
    PROVE  LET next == RecordRun(rows, e)
           IN  /\ DOMAIN next = DOMAIN rows \cup {e.id}
               /\ \A n \in DOMAIN next : "last" \in DOMAIN next[n]
               /\ next[e.id].last = Text(e.at)
               /\ \A n \in DOMAIN rows \ {e.id} : next[n] = rows[n]
<1>1. PICK id, x, next : id = e.id /\ x = Text(e.at) /\ next = RecordRun(rows, e)
  OBVIOUS
<1>2. CASE id \in DOMAIN rows
  <2>1. next = [rows EXCEPT ![id].last = x]
    BY <1>1, <1>2 DEF RecordRun
  <2>2. DOMAIN next = DOMAIN rows \cup {id} /\ \A n \in DOMAIN rows \ {id} : next[n] = rows[n]
    BY <1>2, <2>1
  <2>3. next[id] = [rows[id] EXCEPT !.last = x]
    BY <1>2, <2>1
  <2>4. next[id].last = x /\ "last" \in DOMAIN next[id]
    BY <1>2, <2>3
  <2> QED BY <1>1, <2>2, <2>4
<1>3. CASE id \notin DOMAIN rows
  <2>1. next = [n \in DOMAIN rows \cup {id} |-> IF n = id THEN [first |-> x, last |-> x] ELSE rows[n]]
    BY <1>1, <1>3 DEF RecordRun, Insert
  <2> QED BY <1>1, <2>1
<1> QED BY <1>2, <1>3

\* What the table of runs holds: of every run the text of its last event.
LEMMA RunsHold ==
    ASSUME NEW S, NEW w \in Seq(S)
    PROVE  LET rows == RunsTable(w)
           IN  /\ DOMAIN rows = {w[i].id : i \in DOMAIN w}
               /\ \A id \in DOMAIN rows :
                      \E i \in DOMAIN w : /\ w[i].id = id /\ rows[id].last = Text(w[i].at)
                                          /\ \A j \in DOMAIN w : w[j].id = id => j <= i
<1>1. PICK s : /\ s[0] = <<>>
               /\ \A n \in 1..Len(w) : s[n] = RecordRun(s[n - 1], w[n])
               /\ RunsTable(w) = s[Len(w)]
  BY RunsLoop
<1>2. PICK L \in Nat : L = Len(w) /\ DOMAIN w = 1..L
  OBVIOUS
<1> DEFINE Row(id, n) == /\ "last" \in DOMAIN s[n][id]
                         /\ \E i \in 1..n : /\ w[i].id = id /\ s[n][id].last = Text(w[i].at)
                                            /\ \A j \in 1..n : w[j].id = id => j <= i
           Holds(n) == /\ DOMAIN s[n] = {w[i].id : i \in 1..n}
                       /\ \A id \in DOMAIN s[n] : Row(id, n)
           G == {n \in Nat : n <= L => Holds(n)}
<1>3. 0 \in G
  <2>1. DOMAIN s[0] = {}
    BY <1>1
  <2> QED BY <2>1
<1>4. ASSUME NEW n \in Nat, n \in G PROVE n + 1 \in G
  <2>0. ASSUME n + 1 <= L PROVE Holds(n + 1)
    <3>1. Holds(n)
      <4>1. n <= L
        BY ONLY <2>0, n \in Nat, L \in Nat
      <4> HIDE DEF Holds
      <4> QED BY <1>4, <4>1
    <3>2. n + 1 \in 1..L /\ n + 1 - 1 = n
      BY <2>0
    <3>3. s[n + 1] = RecordRun(s[n], w[n + 1])
      BY <1>1, <1>2, <3>2
    <3>4. PICK e, T, U : e = w[n + 1] /\ T = s[n] /\ U = s[n + 1]
      OBVIOUS
    <3>5. \A id \in DOMAIN T : "last" \in DOMAIN T[id]
      BY <3>1, <3>4
    <3>6. /\ DOMAIN U = DOMAIN T \cup {e.id}
          /\ \A id \in DOMAIN U : "last" \in DOMAIN U[id]
          /\ U[e.id].last = Text(e.at)
          /\ \A id \in DOMAIN T \ {e.id} : U[id] = T[id]
      <4>1. U = RecordRun(T, e)
        BY <3>3, <3>4
      <4> QED BY <3>5, <4>1, RunRecorded
    <3>7. \A i : i \in 1..(n + 1) <=> i \in 1..n \/ i = n + 1
      BY ONLY n \in Nat
    <3>8. DOMAIN U = {w[i].id : i \in 1..(n + 1)}
      BY <3>1, <3>4, <3>6, <3>7
    <3>9. ASSUME NEW id \in DOMAIN U PROVE Row(id, n + 1)
      <4>1. CASE id = e.id
        <5>1. n + 1 \in 1..(n + 1) /\ \A j \in 1..(n + 1) : j <= n + 1
          BY ONLY n \in Nat
        <5> QED BY <3>4, <3>6, <4>1, <5>1
      <4>2. CASE id # e.id
        <5>1. id \in DOMAIN T /\ U[id] = T[id]
          BY <3>6, <4>2
        <5>2. PICK i \in 1..n : /\ w[i].id = id /\ T[id].last = Text(w[i].at)
                                /\ \A j \in 1..n : w[j].id = id => j <= i
          BY <3>1, <3>4, <5>1
        <5>3. i \in 1..(n + 1)
          BY <3>7
        <5>4. \A j \in 1..(n + 1) : w[j].id = id => j <= i
          BY <3>4, <3>7, <4>2, <5>2
        <5> QED BY <3>4, <3>6, <5>1, <5>2, <5>3, <5>4
      <4> QED BY <4>1, <4>2
    <3> HIDE DEF Row
    <3> QED BY <3>4, <3>8, <3>9
  <2> HIDE DEF Holds
  <2> QED BY <2>0
<1>5. Holds(L)
  <2>1. L \in G
    <3> HIDE DEF G
    <3> QED BY <1>3, <1>4, Induct
  <2>2. L <= L
    OBVIOUS
  <2> HIDE DEF Holds
  <2> QED BY <2>1, <2>2
<1>6. PICK rows : rows = RunsTable(w)
  OBVIOUS
<1>7. rows = s[L]
  BY <1>1, <1>2, <1>6
<1> QED BY <1>2, <1>5, <1>6, <1>7

\* A snapshot dates an incident that is not there.
LEMMA StartRecorded ==
    ASSUME NEW rows, NEW e
    PROVE  LET next == RecordStart(rows, e)
           IN  /\ DOMAIN next = DOMAIN rows \cup {e.id}
               /\ e.id \notin DOMAIN rows => next[e.id].started = Text(e.at)
               /\ \A n \in DOMAIN rows : next[n] = rows[n]
<1>1. CASE e.id \in DOMAIN rows
  BY <1>1 DEF RecordStart
<1>2. CASE e.id \notin DOMAIN rows
  <2>1. RecordStart(rows, e)
          = [n \in DOMAIN rows \cup {e.id} |-> IF n = e.id THEN [started |-> Text(e.at)] ELSE rows[n]]
    BY <1>2 DEF RecordStart, Insert
  <2> QED BY <1>2, <2>1
<1> QED BY <1>1, <1>2

\* What the table of incidents holds: of every incident the text of its first snapshot.
LEMMA IncidentsHold ==
    ASSUME NEW S, NEW w \in Seq(S)
    PROVE  LET rows == IncidentsTable(w)
           IN  /\ DOMAIN rows = {w[i].id : i \in DOMAIN w}
               /\ \A id \in DOMAIN rows :
                      \E i \in DOMAIN w : /\ w[i].id = id /\ rows[id].started = Text(w[i].at)
                                          /\ \A j \in DOMAIN w : w[j].id = id => i <= j
<1>1. PICK s : /\ s[0] = <<>>
               /\ \A n \in 1..Len(w) : s[n] = RecordStart(s[n - 1], w[n])
               /\ IncidentsTable(w) = s[Len(w)]
  BY IncidentsLoop
<1>2. PICK L \in Nat : L = Len(w) /\ DOMAIN w = 1..L
  OBVIOUS
<1> DEFINE Row(id, n) == \E i \in 1..n : /\ w[i].id = id /\ s[n][id].started = Text(w[i].at)
                                         /\ \A j \in 1..n : w[j].id = id => i <= j
           Holds(n) == /\ DOMAIN s[n] = {w[i].id : i \in 1..n}
                       /\ \A id \in DOMAIN s[n] : Row(id, n)
           G == {n \in Nat : n <= L => Holds(n)}
<1>3. 0 \in G
  <2>1. DOMAIN s[0] = {}
    BY <1>1
  <2> QED BY <2>1
<1>4. ASSUME NEW n \in Nat, n \in G PROVE n + 1 \in G
  <2>0. ASSUME n + 1 <= L PROVE Holds(n + 1)
    <3>1. Holds(n)
      <4>1. n <= L
        BY ONLY <2>0, n \in Nat, L \in Nat
      <4> HIDE DEF Holds
      <4> QED BY <1>4, <4>1
    <3>2. n + 1 \in 1..L /\ n + 1 - 1 = n
      BY <2>0
    <3>3. s[n + 1] = RecordStart(s[n], w[n + 1])
      BY <1>1, <1>2, <3>2
    <3>4. PICK e, T, U : e = w[n + 1] /\ T = s[n] /\ U = s[n + 1]
      OBVIOUS
    <3>5. U = RecordStart(T, e)
      BY <3>3, <3>4
    <3>6. /\ DOMAIN U = DOMAIN T \cup {e.id}
          /\ e.id \notin DOMAIN T => U[e.id].started = Text(e.at)
          /\ \A id \in DOMAIN T : U[id] = T[id]
      BY <3>5, StartRecorded
    <3>7. \A i : i \in 1..(n + 1) <=> i \in 1..n \/ i = n + 1
      BY ONLY n \in Nat
    <3>8. DOMAIN U = {w[i].id : i \in 1..(n + 1)}
      BY <3>1, <3>4, <3>6, <3>7
    <3>9. ASSUME NEW id \in DOMAIN U PROVE Row(id, n + 1)
      <4>1. CASE id \notin DOMAIN T
        <5>1. id = e.id /\ \A j \in 1..n : w[j].id # id
          BY <3>1, <3>4, <3>6, <4>1
        <5>2. n + 1 \in 1..(n + 1) /\ \A j \in 1..(n + 1) : w[j].id = id => n + 1 <= j
          BY <3>7, <5>1
        <5> QED BY <3>4, <3>6, <4>1, <5>1, <5>2
      <4>2. CASE id \in DOMAIN T
        <5>1. U[id] = T[id]
          BY <3>6, <4>2
        <5>2. PICK i \in 1..n : /\ w[i].id = id /\ T[id].started = Text(w[i].at)
                                /\ \A j \in 1..n : w[j].id = id => i <= j
          BY <3>1, <3>4, <4>2
        <5>3. i \in 1..(n + 1) /\ i <= n + 1
          BY ONLY i \in 1..n, n \in Nat
        <5>4. \A j \in 1..(n + 1) : w[j].id = id => i <= j
          BY <3>7, <5>2, <5>3
        <5> QED BY <3>4, <5>1, <5>2, <5>3, <5>4
      <4> QED BY <4>1, <4>2
    <3> HIDE DEF Row
    <3> QED BY <3>4, <3>8, <3>9
  <2> HIDE DEF Holds
  <2> QED BY <2>0
<1>5. Holds(L)
  <2>1. L \in G
    <3> HIDE DEF G
    <3> QED BY <1>3, <1>4, Induct
  <2>2. L <= L
    OBVIOUS
  <2> HIDE DEF Holds
  <2> QED BY <2>1, <2>2
<1>6. PICK rows : rows = IncidentsTable(w)
  OBVIOUS
<1>7. rows = s[L]
  BY <1>1, <1>2, <1>6
<1> QED BY <1>2, <1>5, <1>6, <1>7

\* A listing of a finite set, in any order, is as long as the set is large.
LEMMA Listing ==
    ASSUME NEW T, IsFiniteSet(T), NEW q \in SetToSeqs(T)
    PROVE  q \in Seq(T) /\ Len(q) = Cardinality(T) /\ Range(q) = T /\ Len(q) \in Nat
<1> DEFINE D == 1..Cardinality(T)
<1>1. Cardinality(T) \in Nat
  BY FS_CardinalityType
<1>2. q \in [D -> T] /\ \A i, j \in D : i # j => q[i] # q[j]
  BY DEF SetToSeqs
<1>3. IsFiniteSet(D) /\ Cardinality(D) = Cardinality(T)
  <2>1. 1 \in Int /\ Cardinality(T) \in Int
    BY <1>1
  <2> QED BY <1>1, <2>1, FS_Interval
<1>4. q \in Injection(D, T)
  BY <1>2, Fun_IsInj
<1>5. q \in Surjection(D, T)
  <2> HIDE DEF D
  <2> QED BY <1>3, <1>4, FS_Injection
<1>6. Range(q) = T
  <2> HIDE DEF D
  <2> QED BY <1>5, Fun_SurjectionProperties
<1>7. q \in Seq(T) /\ Len(q) = Cardinality(T)
  BY <1>1, <1>2
<1> QED BY <1>1, <1>6, <1>7

\* A list sorted by the texts of times is sorted by the times, but for OnlyByText, and
\* leaves out nothing later.
LEMMA Listed ==
    ASSUME NEW I, IsFiniteSet(I), NEW time, \A id \in I : time[id] \in Nat,
           NEW text, DOMAIN text = I, \A id \in I : text[id] = Text(time[id]),
           NEW limit \in Nat \ {0}, NEW list \in Descending(text, limit)
    PROVE  /\ Len(list) = IF Cardinality(I) < limit THEN Cardinality(I) ELSE limit
           /\ \A i, j \in DOMAIN list : i < j => OnlyByText(time[list[i]], time[list[j]])
           /\ \A i \in DOMAIN list, id \in I \ ToSet(list) : OnlyByText(time[list[i]], time[id])
<1>1. PICK l \in SetToSeqs(I) :
          /\ \A i, j \in DOMAIN l : i < j => ~TextBefore(text[l[i]], text[l[j]])
          /\ list = SubSeq(l, 1, IF limit < Len(l) THEN limit ELSE Len(l))
  BY DEF Descending
<1>2. PICK L \in Nat : L = Cardinality(I) /\ L = Len(l) /\ DOMAIN l = 1..L
  <2>1. l \in Seq(I) /\ Len(l) = Cardinality(I) /\ Len(l) \in Nat
    BY Listing
  <2>2. DOMAIN l = 1..Len(l)
    BY <2>1
  <2> QED BY <2>1, <2>2
<1>3. l \in Seq(I) /\ \A id \in I : \E j \in 1..L : l[j] = id
  <2>1. l \in Seq(I) /\ Range(l) = I
    BY Listing
  <2> QED BY <1>2, <2>1 DEF Range
<1>4. PICK m \in 0..L : m = IF limit < L THEN limit ELSE L
  OBVIOUS
<1>5. list = SubSeq(l, 1, m)
  BY <1>1, <1>2, <1>4
<1>6. Len(list) = m /\ DOMAIN list = 1..m /\ \A i \in 1..m : list[i] = l[i]
  <2>1. 1 \in Nat /\ m \in Nat /\ m <= Len(l)
    BY <1>2
  <2>2. Len(SubSeq(l, 1, m)) = m /\ DOMAIN SubSeq(l, 1, m) = 1..m
    BY <1>3, <2>1
  <2>3. \A i \in 1..m : SubSeq(l, 1, m)[i] = l[i]
    BY <1>3, <2>1
  <2> QED BY <1>5, <2>2, <2>3
<1>7. ASSUME NEW i \in 1..L, NEW j \in 1..L, i < j PROVE OnlyByText(time[l[i]], time[l[j]])
  <2>1. l[i] \in I /\ l[j] \in I
    BY <1>2, <1>3
  <2>2. ~TextBefore(text[l[i]], text[l[j]])
    BY <1>1, <1>2, <1>7
  <2>3. PICK x \in Nat, y \in Nat : x = time[l[i]] /\ y = time[l[j]]
    BY <2>1
  <2>4. ~TextBefore(Text(x), Text(y))
    BY <2>1, <2>2, <2>3
  <2> QED BY <2>3, <2>4, Textual
<1>8. Len(list) = IF Cardinality(I) < limit THEN Cardinality(I) ELSE limit
  BY <1>2, <1>4, <1>6
<1>9. \A i \in 1..m : i \in 1..L
  BY ONLY L \in Nat, m \in 0..L
<1>10. \A i, j \in DOMAIN list : i < j => OnlyByText(time[list[i]], time[list[j]])
  BY <1>6, <1>7, <1>9
<1>11. ASSUME NEW i \in DOMAIN list, NEW id \in I \ ToSet(list)
       PROVE  OnlyByText(time[list[i]], time[id])
  <2>1. PICK j \in 1..L : l[j] = id
    BY <1>3
  <2>2. j \notin 1..m
    BY <1>6, <2>1 DEF ToSet
  <2>3. i \in 1..m
    BY <1>6
  <2>4. i < j
    BY ONLY <2>2, <2>3, j \in 1..L, m \in 0..L, L \in Nat
  <2> QED BY <1>6, <1>7, <1>9, <2>1, <2>3, <2>4
<1> QED BY <1>8, <1>10, <1>11

\* Both lists come most recent first, but for what the text of a time does within a
\* second, whatever the events, the snapshots and the limit (store.go:197, 370).
THEOREM ListsAreRecent ==
    ASSUME NEW S, history \in Seq(S), \A i \in DOMAIN history : history[i].at \in Nat, Queries \subseteq Int
    PROVE  RecentFirst
<1>1. PICK w \in Seq(S) : w = history
  OBVIOUS
<1>2. PICK L \in Nat : DOMAIN w = 1..L
  OBVIOUS
<1>3. PICK I : I = {w[i].id : i \in 1..L}
  OBVIOUS
<1>4. IsFiniteSet(I)
  <2> DEFINE f == [i \in 1..L |-> w[i].id]
  <2>1. f \in [1..L -> I] /\ \A id \in I : \E i \in 1..L : f[i] = id
    BY <1>3
  <2>2. 1 \in Int /\ L \in Int
    OBVIOUS
  <2> HIDE DEF f
  <2>3. IsFiniteSet(1..L) /\ f \in Surjection(1..L, I)
    BY <2>1, <2>2, FS_Interval, Fun_IsSurj
  <2> QED BY <2>3, FS_Surjection
<1>5. Ids = I
  BY <1>1, <1>2, <1>3 DEF Ids
<1>6. \A i \in 1..L : w[i].at \in Nat
  BY <1>1, <1>2
<1>7. PICK first, last : first = FirstTime /\ last = LastTime
  OBVIOUS
<1>8. ASSUME NEW id \in I, NEW i \in 1..L, w[i].id = id, \A j \in 1..L : w[j].id = id => i <= j
      PROVE  first[id] = w[i].at
  <2>1. PICK T : T = {j \in 1..L : w[j].id = id}
    OBVIOUS
  <2>2. TimesOf(id) = T
    BY <1>1, <1>2, <2>1 DEF TimesOf
  <2>3. (CHOOSE x \in T : \A y \in T : x <= y) = i
    <3>1. i \in T /\ \A y \in T : i <= y
      BY <1>8, <2>1
    <3>2. \A x \in T : (\A y \in T : x <= y) => x = i
      BY <2>1, <3>1
    <3> QED BY <3>1, <3>2
  <2>4. FirstTime[id] = history[CHOOSE x \in TimesOf(id) : \A y \in TimesOf(id) : x <= y].at
    BY <1>5 DEF FirstTime
  <2> QED BY <1>1, <1>7, <2>2, <2>3, <2>4
<1>9. ASSUME NEW id \in I, NEW i \in 1..L, w[i].id = id, \A j \in 1..L : w[j].id = id => j <= i
      PROVE  last[id] = w[i].at
  <2>1. PICK T : T = {j \in 1..L : w[j].id = id}
    OBVIOUS
  <2>2. TimesOf(id) = T
    BY <1>1, <1>2, <2>1 DEF TimesOf
  <2>3. (CHOOSE x \in T : \A y \in T : y <= x) = i
    <3>1. i \in T /\ \A y \in T : y <= i
      BY <1>9, <2>1
    <3>2. \A x \in T : (\A y \in T : y <= x) => x = i
      BY <2>1, <3>1
    <3> QED BY <3>1, <3>2
  <2>4. LastTime[id] = history[CHOOSE x \in TimesOf(id) : \A y \in TimesOf(id) : y <= x].at
    BY <1>5 DEF LastTime
  <2> QED BY <1>1, <1>7, <2>2, <2>3, <2>4
<1>10. PICK seen, begun : seen = RunsTable(w) /\ begun = IncidentsTable(w)
  OBVIOUS
<1>11. DOMAIN seen = I /\ \A id \in I : last[id] \in Nat /\ seen[id].last = Text(last[id])
  <2>1. /\ DOMAIN seen = {w[i].id : i \in DOMAIN w}
        /\ \A id \in DOMAIN seen :
               \E i \in DOMAIN w : /\ w[i].id = id /\ seen[id].last = Text(w[i].at)
                                   /\ \A j \in DOMAIN w : w[j].id = id => j <= i
    BY <1>10, RunsHold
  <2>2. DOMAIN seen = I
    BY <1>2, <1>3, <2>1
  <2>3. ASSUME NEW id \in I PROVE last[id] \in Nat /\ seen[id].last = Text(last[id])
    <3>1. PICK i \in 1..L : /\ w[i].id = id /\ seen[id].last = Text(w[i].at)
                            /\ \A j \in 1..L : w[j].id = id => j <= i
      BY <1>2, <2>1, <2>2
    <3>2. last[id] = w[i].at
      BY <1>9, <3>1
    <3> QED BY <1>6, <3>1, <3>2
  <2> QED BY <2>2, <2>3
<1>12. DOMAIN begun = I /\ \A id \in I : first[id] \in Nat /\ begun[id].started = Text(first[id])
  <2>1. /\ DOMAIN begun = {w[i].id : i \in DOMAIN w}
        /\ \A id \in DOMAIN begun :
               \E i \in DOMAIN w : /\ w[i].id = id /\ begun[id].started = Text(w[i].at)
                                   /\ \A j \in DOMAIN w : w[j].id = id => i <= j
    BY <1>10, IncidentsHold
  <2>2. DOMAIN begun = I
    BY <1>2, <1>3, <2>1
  <2>3. ASSUME NEW id \in I PROVE first[id] \in Nat /\ begun[id].started = Text(first[id])
    <3>1. PICK i \in 1..L : /\ w[i].id = id /\ begun[id].started = Text(w[i].at)
                            /\ \A j \in 1..L : w[j].id = id => i <= j
      BY <1>2, <2>1, <2>2
    <3>2. first[id] = w[i].at
      BY <1>8, <3>1
    <3> QED BY <1>6, <3>1, <3>2
  <2> QED BY <2>2, <2>3
<1>13. ASSUME NEW limit \in Nat \ {0}, NEW list \in ListRuns(seen, limit) PROVE InOrder(list, last, limit)
  <2>1. PICK text : text = [r \in DOMAIN seen |-> seen[r].last]
    OBVIOUS
  <2>2. DOMAIN text = I /\ (\A id \in I : text[id] = Text(last[id])) /\ list \in Descending(text, limit)
    BY <1>11, <2>1 DEF ListRuns
  <2>3. /\ Len(list) = IF Cardinality(I) < limit THEN Cardinality(I) ELSE limit
        /\ \A i, j \in DOMAIN list : i < j => OnlyByText(last[list[i]], last[list[j]])
        /\ \A i \in DOMAIN list, id \in I \ ToSet(list) : OnlyByText(last[list[i]], last[id])
    BY <1>4, <1>11, <2>2, Listed
  <2> QED BY <1>5, <2>3 DEF InOrder
<1>14. ASSUME NEW limit \in Nat \ {0}, NEW list \in ListIncidents(begun, limit)
       PROVE  InOrder(list, first, limit)
  <2>1. PICK text : text = [n \in DOMAIN begun |-> begun[n].started]
    OBVIOUS
  <2>2. DOMAIN text = I /\ (\A id \in I : text[id] = Text(first[id])) /\ list \in Descending(text, limit)
    BY <1>12, <2>1 DEF ListIncidents
  <2>3. /\ Len(list) = IF Cardinality(I) < limit THEN Cardinality(I) ELSE limit
        /\ \A i, j \in DOMAIN list : i < j => OnlyByText(first[list[i]], first[list[j]])
        /\ \A i \in DOMAIN list, id \in I \ ToSet(list) : OnlyByText(first[list[i]], first[id])
    BY <1>4, <1>12, <2>2, Listed
  <2> QED BY <1>5, <2>3 DEF InOrder
<1>15. \A query \in Queries : EffectiveLimit(query) \in Nat \ {0}
  BY DEF EffectiveLimit
<1> QED BY <1>1, <1>7, <1>10, <1>13, <1>14, <1>15 DEF RecentFirst

=============================================================================
