--------------------------------- MODULE Api ---------------------------------
(***************************************************************************)
(* The REST API of internal/api/api.go over the SQLite store of            *)
(* internal/store/store.go.  The store has one connection, so a statement  *)
(* or a transaction is atomic; a request is several of them, and the       *)
(* pipeline and other requests write in between.  Any statement may fail:  *)
(* one that writes then leaves its tables as they are, the pipeline logs   *)
(* that and goes on.                                                       *)
(*                                                                         *)
(* Tables of which only the number of rows per run matters are counters.   *)
(***************************************************************************)
EXTENDS Integers, Sequences, FiniteSets, SequencesExt

CONSTANTS
    Handlers,   \* goroutines that serve requests
    RunIds,     \* run ids
    Stations,   \* station ids
    Times,      \* timestamps of events
    MaxEvents,  \* bounds of the model: rows of the events table, ...
    MaxRows,    \* ... rows per run of the failures and incidents tables
    MaxNotes,   \* ... rows of the notes table
    MaxReadErrors \* ... and list statements that fail in one request

VARIABLES
    runs,       \* the runs table, a function of run_id
    events,     \* events[r]: rows of run r in the events table
    failures,   \* failures[r]: rows of run r in the failures table
    incidents,  \* incidents[r]: rows of run r in the incidents table
    notes,      \* the notes table; a row's id is its position
    hubOpen,    \* the hub accepts messages
    announced,  \* the note_added messages of the hub, in order
    request     \* request[h]: what handler h is doing

tables == <<runs, events, failures, incidents, notes>>
vars   == <<tables, hubOpen, announced, request>>

Idle == [kind |-> "none"]

\* All that is left to do is to write the reply.
Replying == [kind |-> "reply"]

Init ==
    /\ runs = <<>>
    /\ events = [r \in RunIds |-> 0]
    /\ failures = [r \in RunIds |-> 0]
    /\ incidents = [r \in RunIds |-> 0]
    /\ notes = <<>>
    /\ hubOpen = TRUE
    /\ announced = <<>>
    /\ request = [h \in Handlers |-> Idle]

\* f with the value v at k.
Put(f, k, v) == [x \in DOMAIN f \cup {k} |-> IF x = k THEN v ELSE f[x]]

-----------------------------------------------------------------------------
(* The pipeline's writes *)

\* Mutation: INSERT OR REPLACE, which takes the station of the latest event.
UpsertReplaces(r, station, ts) ==
    Put(runs, r, [station |-> station, first |-> ts, last |-> ts, resolved |-> FALSE])

\* The upsert of RecordEvent: on conflict only last_seen changes.
Upsert(r, station, ts) ==
    IF r \in DOMAIN runs
    THEN [runs EXCEPT ![r].last = ts]
    ELSE Put(runs, r, [station |-> station, first |-> ts, last |-> ts, resolved |-> FALSE])

\* Mutation: no transaction, the second insert may fail.
RecordEventHalf(r, station, ts) ==
    /\ FoldFunction(+, 0, events) < MaxEvents
    /\ runs' = Upsert(r, station, ts)
    /\ events' \in {events, [events EXCEPT ![r] = @ + 1]}
    /\ UNCHANGED <<failures, incidents, notes, hubOpen, announced, request>>

\* One transaction: the run's row and the event's.
RecordEvent(r, station, ts) ==
    /\ FoldFunction(+, 0, events) < MaxEvents
    /\ runs' = Upsert(r, station, ts)
    /\ events' = [events EXCEPT ![r] = @ + 1]
    /\ UNCHANGED <<failures, incidents, notes, hubOpen, announced, request>>

RecordFailure(r) ==
    /\ failures[r] < MaxRows
    /\ failures' = [failures EXCEPT ![r] = @ + 1]
    /\ UNCHANGED <<runs, events, incidents, notes, hubOpen, announced, request>>

\* A first SaveIncident; a later one updates the row in place.
SaveIncident(r) ==
    /\ incidents[r] < MaxRows
    /\ incidents' = [incidents EXCEPT ![r] = @ + 1]
    /\ UNCHANGED <<runs, events, failures, notes, hubOpen, announced, request>>

\* Shutdown of the hub, which main starts after the HTTP server drained or timed out.
CloseHub ==
    /\ hubOpen
    /\ hubOpen' = FALSE
    /\ UNCHANGED <<tables, announced, request>>

-----------------------------------------------------------------------------
(* Requests that read *)

\* The statements of handleRunGet, handleExport and of loadRunInput for each of
\* the two runs of handleCompare.  GetRun comes first: it may answer 404.
Statements(kind) ==
    CASE kind = "get"     -> <<"run", "events", "failures", "notes", "incidents">>
      [] kind = "export"  -> <<"run", "events", "failures", "notes">>
      [] kind = "compare" -> <<"run", "failures", "events">>

\* Mutation: one join of the three tables instead of two subselects.
SummaryJoined(r) == [events |-> events[r] * failures[r], failures |-> events[r] * failures[r]]

\* The counters of GetRun, its two subselects; the rest of the row is not told apart.
Summary(r) == [events |-> events[r], failures |-> failures[r]]

Begin(h, kind, r) ==
    /\ request[h] = Idle
    /\ r \in DOMAIN runs
    /\ request' = [request EXCEPT ![h] = [kind |-> kind, run |-> r, summary |-> Summary(r),
                                          todo |-> Tail(Statements(kind)), rows |-> <<>>,
                                          failed |-> {}]]
    /\ UNCHANGED <<tables, hubOpen, announced>>

RowsOf(table, r) ==
    CASE table = "events"    -> events[r]
      [] table = "failures"  -> failures[r]
      [] table = "incidents" -> incidents[r]
      [] table = "notes"     -> Cardinality({i \in DOMAIN notes : notes[i].run = r})

Reads(h) == request[h].kind \in {"get", "export", "compare"}

\* The next statement of the request.
Read(h) ==
    /\ Reads(h)
    /\ request[h].todo # <<>>
    /\ LET table == Head(request[h].todo)
       IN  request' = [request EXCEPT ![h].todo = Tail(@),
                                      ![h].rows = Put(@, table, RowsOf(table, request[h].run))]
    /\ UNCHANGED <<tables, hubOpen, announced>>

\* A statement that fails ends a comparison.  The other two requests ignore the
\* error and go on with what was read, nothing or the first rows.
ReadFails(h) ==
    /\ Reads(h)
    /\ request[h].todo # <<>>
    /\ Cardinality(request[h].failed) < MaxReadErrors
    /\ IF request[h].kind = "compare"
       THEN request' = [request EXCEPT ![h] = Replying]
       ELSE LET table == Head(request[h].todo)
            IN  \E n \in 0..RowsOf(table, request[h].run) :
                    request' = [request EXCEPT ![h].todo = Tail(@),
                                               ![h].rows = Put(@, table, n),
                                               ![h].failed = @ \cup {table}]
    /\ UNCHANGED <<tables, hubOpen, announced>>

\* The first statement of any request fails, or finds no such run.
Refuse(h) ==
    /\ request[h] = Idle
    /\ request' = [request EXCEPT ![h] = Replying]
    /\ UNCHANGED <<tables, hubOpen, announced>>

Reply(h) ==
    /\ \/ Reads(h) /\ request[h].todo = <<>>
       \/ request[h].kind = "reply"
    /\ request' = [request EXCEPT ![h] = Idle]
    /\ UNCHANGED <<tables, hubOpen, announced>>

-----------------------------------------------------------------------------
(* Requests that write *)

\* handleNotes: GetRun, for the station of the run ...
PostNote(h, r) ==
    /\ request[h] = Idle
    /\ r \in DOMAIN runs
    /\ request' = [request EXCEPT ![h] = [kind |-> "note", run |-> r, station |-> runs[r].station]]
    /\ UNCHANGED <<tables, hubOpen, announced>>

\* ... AddNote, which returns the id of the row ...
AddNote(h) ==
    /\ request[h].kind = "note"
    /\ Len(notes) < MaxNotes
    /\ notes' = Append(notes, [run |-> request[h].run, station |-> request[h].station])
    /\ request' = [request EXCEPT ![h] = [kind |-> "announce", id |-> Len(notes) + 1]]
    /\ UNCHANGED <<runs, events, failures, incidents, hubOpen, announced>>

\* ... or an error, and then nothing is announced ...
AddNoteFails(h) ==
    /\ request[h].kind = "note"
    /\ request' = [request EXCEPT ![h] = Replying]
    /\ UNCHANGED <<tables, hubOpen, announced>>

\* Mutation: the announcement may be repeated.
PublishNoteAgain(h) ==
    /\ request[h].kind = "announce"
    /\ Len(announced) <= MaxNotes
    /\ announced' = IF hubOpen THEN Append(announced, request[h].id) ELSE announced
    /\ request' \in {request, [request EXCEPT ![h] = Replying]}
    /\ UNCHANGED <<tables, hubOpen>>

\* ... and PublishNote, which a closed hub ignores.
PublishNote(h) ==
    /\ request[h].kind = "announce"
    /\ announced' = IF hubOpen THEN Append(announced, request[h].id) ELSE announced
    /\ request' = [request EXCEPT ![h] = Replying]
    /\ UNCHANGED <<tables, hubOpen>>

\* handleResolve: one UPDATE; no row matched answers 404.
Resolve(h, r, resolved) ==
    /\ request[h] = Idle
    /\ r \in DOMAIN runs
    /\ runs' = [runs EXCEPT ![r].resolved = resolved]
    /\ request' = [request EXCEPT ![h] = Replying]
    /\ UNCHANGED <<events, failures, incidents, notes, hubOpen, announced>>

-----------------------------------------------------------------------------

Next ==
    \/ \E r \in RunIds, s \in Stations, t \in Times : RecordEvent(r, s, t)
    \/ \E r \in RunIds : RecordFailure(r) \/ SaveIncident(r)
    \/ CloseHub
    \/ \E h \in Handlers, r \in RunIds :
           \/ \E kind \in {"get", "export", "compare"} : Begin(h, kind, r)
           \/ PostNote(h, r)
           \/ \E resolved \in BOOLEAN : Resolve(h, r, resolved)
    \/ \E h \in Handlers : Read(h) \/ ReadFails(h) \/ Refuse(h) \/ Reply(h)
    \/ \E h \in Handlers : AddNote(h) \/ AddNoteFails(h) \/ PublishNote(h)

Spec == Init /\ [][Next]_vars

-----------------------------------------------------------------------------
(* Properties *)

\* The tables hold what the schema says.
TypeOK ==
    /\ DOMAIN runs \subseteq RunIds
    /\ \A r \in DOMAIN runs : runs[r] \in [station : Stations, first : Times, last : Times,
                                           resolved : BOOLEAN]
    /\ events \in [RunIds -> Nat] /\ failures \in [RunIds -> Nat] /\ incidents \in [RunIds -> Nat]
    /\ notes \in Seq([run : RunIds, station : Stations])
    /\ Range(announced) \subseteq DOMAIN notes
    /\ \A h \in Handlers : request[h].kind \in {"none", "get", "export", "compare", "note",
                                                "announce", "reply"}

\* The run and its events are written in one transaction: a run is listed if and
\* only if it has events, also between any two statements of another request.
RunsHaveEvents == DOMAIN runs = {r \in RunIds : events[r] > 0}

\* The types, and what every transaction of RecordEvent leaves.
StoreInv == TypeOK /\ RunsHaveEvents

\* A run detail, a report or a comparison lists every event and every failure it
\* counts, although its statements are not one transaction: it counts first.  A
\* detail or a report is answered, with a list that is too short, also when the
\* statement of that list failed; a comparison never is.
CountedIsListed ==
    \A h \in Handlers : Reads(h) =>
        /\ \A table \in {"events", "failures"} \cap DOMAIN request[h].rows :
               request[h].rows[table] < request[h].summary[table] => table \in request[h].failed
        /\ request[h].kind = "compare" => request[h].failed = {}

\* A note belongs to a run that exists and carries the station of that run,
\* though the run was looked up in an earlier statement.
NotesBelongToRuns ==
    \A i \in DOMAIN notes : /\ notes[i].run \in DOMAIN runs
                            /\ notes[i].station = runs[notes[i].run].station

\* Every stored note is announced to the dashboards exactly once, unless the hub
\* was closed before its turn.
NotesAnnouncedOnce ==
    /\ IsInjective(announced)
    /\ LET pending == {request[h].id : h \in {g \in Handlers : request[g].kind = "announce"}}
       IN  /\ pending \cap Range(announced) = {}
           /\ hubOpen => DOMAIN notes = pending \cup Range(announced)

=============================================================================
