------------------------------ MODULE Dashboard ------------------------------
(***************************************************************************)
(* The browser's side of the service, internal/web/static/app.js: handlers *)
(* of clicks, messages, timers and replies that share one state object.    *)
(* Each is atomic up to its await; the server, other dashboards and the    *)
(* operator go on meanwhile, and replies come back in any order.           *)
(*                                                                         *)
(* A note is one more in a run's count, an incident a version of its row.  *)
(* The socket does not break here (Reconnect), a run is read in one        *)
(* statement (Api has its five), and one goroutine feeds the incident.     *)
(***************************************************************************)
EXTENDS Integers, Sequences, FiniteSets, SequencesExt

CONSTANTS
    RunIds,      \* runs
    NoRun,       \* nothing is selected
    MaxNotes,    \* bounds of the model: notes stored, all runs together, ...
    MaxVersions, \* ... snapshots of the incident, ...
    MaxPending,  \* ... requests in flight when the operator clicks, ...
    MaxRefreshes,\* ... requests for the incidents in flight when the timer fires, ...
    MaxFailures, \* ... requests that fail, ...
    MaxToggles   \* ... and changes of a flag by other dashboards

ASSUME NoRunAssumption == NoRun \notin RunIds

VARIABLES
    notes,       \* notes[r]: rows of run r in the notes table
    resolved,    \* resolved[r]: its flag in the runs table
    unannounced, \* unannounced[r]: notes of other dashboards, stored, not published
    version,     \* the snapshot in the incident's row
    published,   \* the latest snapshot pushed to the dashboards
    socket,      \* messages on their way to this dashboard
    requests,    \* its requests about runs in flight, in the order of the fetch calls
    backfills,   \* its requests for the incidents in flight
    selected,    \* state.selectedRun
    panel,       \* what the run panel displays
    shown,       \* state.incidents, the version of the one incident
    failures     \* how many requests failed

VARIABLES
    inDoubt,     \* history: the last run request to settle was not the last of them
                 \* issued, or failed, or a change of the flag failed after it
    elsewhere    \* history: the runs whose flag other dashboards changed, in order

rows     == <<notes, resolved, unannounced>>
timeline == <<version, published, backfills, shown>>
history  == <<failures, inDoubt, elsewhere>>
vars     == <<rows, timeline, history, socket, requests, selected, panel>>

\* The flag and the count are what a write sends, then what a run request brings.
Request(kind, run, flag) ==
    [kind |-> kind, run |-> run, resolved |-> flag, notes |-> 0, status |-> "sent",
     late |-> FALSE]

\* A request for the incidents: on its way, answered with a version.
Sent        == [status |-> "sent", version |-> 0]
Answered(v) == [status |-> "answered", version |-> v]

Init ==
    /\ notes = [r \in RunIds |-> 0]
    /\ resolved = [r \in RunIds |-> FALSE]
    /\ unannounced = [r \in RunIds |-> 0]
    /\ version = 0
    /\ published = 0
    /\ socket = <<>>
    /\ requests = <<>>
    /\ backfills = <<Sent>>
    /\ selected = NoRun
    /\ panel = [run |-> NoRun, notes |-> 0, resolved |-> FALSE]
    /\ shown = 0
    /\ failures = 0
    /\ inDoubt = FALSE
    /\ elsewhere = <<>>

Pending(kinds) == Cardinality({i \in DOMAIN requests : requests[i].kind \in kinds})

RoomForNote == FoldFunction(+, 0, notes) + Pending({"note"}) < MaxNotes

-----------------------------------------------------------------------------
(* Notes and flags of other dashboards; the pipeline's incident *)

NoteMessage(r)     == [kind |-> "note_added", run |-> r]
IncidentMessage(v) == [kind |-> "incident", version |-> v]

\* Another operator posts a note: AddNote ...
OtherNote(r) ==
    /\ RoomForNote
    /\ notes' = [notes EXCEPT ![r] = @ + 1]
    /\ unannounced' = [unannounced EXCEPT ![r] = @ + 1]
    /\ UNCHANGED <<resolved, timeline, history, socket, requests, selected, panel>>

\* ... and PublishNote.
PublishOtherNote(r) ==
    /\ unannounced[r] > 0
    /\ unannounced' = [unannounced EXCEPT ![r] = @ - 1]
    /\ socket' = Append(socket, NoteMessage(r))
    /\ UNCHANGED <<notes, resolved, timeline, history, requests, selected, panel>>

\* Another operator toggles a flag; no message tells of it.
OtherResolve(r) ==
    /\ Len(elsewhere) < MaxToggles
    /\ resolved' = [resolved EXCEPT ![r] = ~@]
    /\ elsewhere' = Append(elsewhere, r)
    /\ UNCHANGED <<notes, unannounced, timeline, failures, inDoubt, socket, requests, selected,
                   panel>>

SaveIncident ==
    /\ version = published
    /\ version < MaxVersions
    /\ version' = version + 1
    /\ UNCHANGED <<rows, published, backfills, shown, history, socket, requests, selected, panel>>

PublishIncident ==
    /\ published < version
    /\ published' = version
    /\ socket' = Append(socket, IncidentMessage(version))
    /\ UNCHANGED <<rows, version, backfills, shown, history, requests, selected, panel>>

-----------------------------------------------------------------------------
(* The server answers *)

Answer(k) == requests' = [requests EXCEPT ![k].status = "answered"]

\* handleRunGet
ServeRun(k) ==
    /\ requests[k].kind = "run" /\ requests[k].status = "sent"
    /\ requests' = [requests EXCEPT ![k].notes = notes[requests[k].run],
                                     ![k].resolved = resolved[requests[k].run],
                                     ![k].status = "answered"]
    /\ UNCHANGED <<rows, timeline, history, socket, selected, panel>>

\* handleIncidents
ServeIncidents(k) ==
    /\ backfills[k] = Sent
    /\ backfills' = [backfills EXCEPT ![k] = Answered(version)]
    /\ UNCHANGED <<rows, version, published, shown, history, socket, requests, selected, panel>>

\* handleNotes: AddNote ...
StoreNote(k) ==
    /\ requests[k].kind = "note" /\ requests[k].status = "sent"
    /\ notes' = [notes EXCEPT ![requests[k].run] = @ + 1]
    /\ requests' = [requests EXCEPT ![k].status = "stored"]
    /\ UNCHANGED <<resolved, unannounced, timeline, history, socket, selected, panel>>

\* ... PublishNote, and the reply.
PublishNote(k) ==
    /\ requests[k].status = "stored"
    /\ socket' = Append(socket, NoteMessage(requests[k].run))
    /\ Answer(k)
    /\ UNCHANGED <<rows, timeline, history, selected, panel>>

\* handleResolve
ServeResolve(k) ==
    /\ requests[k].kind = "resolve" /\ requests[k].status = "sent"
    /\ resolved' = [resolved EXCEPT ![requests[k].run] = requests[k].resolved]
    /\ Answer(k)
    /\ UNCHANGED <<notes, unannounced, timeline, history, socket, selected, panel>>

\* A write is answered with an error; fetch does not throw, and the page goes on.
Refuse(k) ==
    /\ requests[k].kind \in {"note", "resolve"} /\ requests[k].status = "sent"
    /\ failures < MaxFailures
    /\ failures' = failures + 1
    /\ Answer(k)
    /\ UNCHANGED <<rows, timeline, inDoubt, elsewhere, socket, selected, panel>>

Serve(k) == ServeRun(k) \/ StoreNote(k) \/ PublishNote(k) \/ ServeResolve(k) \/ Refuse(k)

-----------------------------------------------------------------------------
(* The page *)

\* Mutation: the run is selected when its data is there.
LoadRunDetailLater(run, rest) ==
    /\ requests' = Append(rest, Request("run", run, FALSE))
    /\ selected' = panel.run

\* loadRunDetail up to its await; "rest" are the other requests.
LoadRunDetail(run, rest) ==
    /\ requests' = Append(rest, Request("run", run, FALSE))
    /\ selected' = run

\* A click on a run of the list.
Select(r) ==
    /\ Len(requests) < MaxPending
    /\ LoadRunDetail(r, requests)
    /\ UNCHANGED <<rows, timeline, history, socket, panel>>

\* Mutation: no reload while one is on its way.
OnNoteDebounced ==
    /\ socket # <<>> /\ Head(socket).kind = "note_added"
    /\ socket' = Tail(socket)
    /\ IF Head(socket).run = selected /\ Pending({"run"}) = 0
       THEN LoadRunDetail(selected, requests) ELSE UNCHANGED <<requests, selected>>
    /\ UNCHANGED <<rows, timeline, history, panel>>

\* handleMessage: a note of the selected run reloads the panel ...
OnNote ==
    /\ socket # <<>> /\ Head(socket).kind = "note_added"
    /\ socket' = Tail(socket)
    /\ IF Head(socket).run = selected THEN LoadRunDetail(selected, requests)
                                      ELSE UNCHANGED <<requests, selected>>
    /\ UNCHANGED <<rows, timeline, history, panel>>

\* ... an incident replaces the one in the map.
OnIncident ==
    /\ socket # <<>> /\ Head(socket).kind = "incident"
    /\ socket' = Tail(socket)
    /\ shown' = Head(socket).version
    /\ UNCHANGED <<rows, version, published, backfills, history, requests, selected, panel>>

\* submitNote up to its await
SubmitNote ==
    /\ selected # NoRun
    /\ Len(requests) < MaxPending /\ RoomForNote
    /\ requests' = Append(requests, Request("note", selected, FALSE))
    /\ UNCHANGED <<rows, timeline, history, socket, selected, panel>>

\* toggleResolve up to its await: the flag on display, the run selected.
ToggleResolve ==
    /\ selected # NoRun
    /\ Len(requests) < MaxPending
    /\ requests' = Append(requests, Request("resolve", selected, ~panel.resolved))
    /\ UNCHANGED <<rows, timeline, history, socket, selected, panel>>

\* Mutation: the list is loaded with the page and never again.
TickNever == Len(backfills) < MaxRefreshes /\ UNCHANGED vars

\* setInterval(loadIncidents), up to its await.
Tick ==
    /\ Len(backfills) < MaxRefreshes
    /\ backfills' = Append(backfills, Sent)
    /\ UNCHANGED <<rows, version, published, shown, history, socket, requests, selected, panel>>

\* What is left of the requests when k has settled: run requests issued before
\* "last" that are still in flight come too late.
Settled(k, last) ==
    RemoveAt([i \in DOMAIN requests |->
                 [requests[i] EXCEPT !.late = @ \/ (requests[i].kind = "run" /\ i < last)]], k)

\* The rest of loadRunDetail: the panel takes what came back.
ReplyRun(k) ==
    /\ requests[k].kind = "run" /\ requests[k].status = "answered"
    /\ panel' = [run |-> requests[k].run, notes |-> requests[k].notes,
                 resolved |-> requests[k].resolved]
    /\ requests' = Settled(k, k)
    /\ inDoubt' = requests[k].late
    /\ UNCHANGED <<rows, timeline, failures, elsewhere, socket, selected>>

\* The rest of submitNote and toggleResolve: load the run selected by now.
ReplyWrite(k) ==
    /\ requests[k].kind \in {"note", "resolve"} /\ requests[k].status = "answered"
    /\ LoadRunDetail(selected, Settled(k, 1))
    /\ UNCHANGED <<rows, timeline, history, socket, panel>>

Reply(k) == ReplyRun(k) \/ ReplyWrite(k)

\* The rest of loadIncidents: the rows replace what the map has.
ReplyIncidents(k) ==
    /\ backfills[k].status = "answered"
    /\ shown' = backfills[k].version
    /\ backfills' = RemoveAt(backfills, k)
    /\ UNCHANGED <<rows, version, published, history, socket, requests, selected, panel>>

\* fetch throws, before the server saw the request or when its reply is lost, or
\* a read is answered with an error: every handler just returns.
Fail(k) ==
    /\ requests[k].status \in {"sent", "answered"}
    /\ failures < MaxFailures
    /\ failures' = failures + 1
    /\ inDoubt' = (inDoubt \/ (requests[k].kind = "run" /\ ~requests[k].late)
                           \/ requests[k].kind = "resolve")
    /\ requests' = Settled(k, CASE requests[k].kind = "run"     -> k
                                [] requests[k].kind = "resolve" -> Len(requests) + 1
                                [] requests[k].kind = "note"    -> 1)
    /\ UNCHANGED <<rows, timeline, elsewhere, socket, selected, panel>>

FailIncidents(k) ==
    /\ failures < MaxFailures
    /\ failures' = failures + 1
    /\ backfills' = RemoveAt(backfills, k)
    /\ UNCHANGED <<rows, version, published, shown, inDoubt, elsewhere, socket, requests,
                   selected, panel>>

-----------------------------------------------------------------------------

OnMessage == OnNote \/ OnIncident
Incidents == \E k \in DOMAIN backfills : ServeIncidents(k) \/ ReplyIncidents(k)

Next ==
    \/ \E r \in RunIds : OtherNote(r) \/ PublishOtherNote(r) \/ OtherResolve(r) \/ Select(r)
    \/ SaveIncident \/ PublishIncident
    \/ OnMessage \/ SubmitNote \/ ToggleResolve \/ Tick
    \/ \E k \in DOMAIN requests : Serve(k) \/ Reply(k) \/ Fail(k)
    \/ Incidents \/ \E k \in DOMAIN backfills : FailIncidents(k)

Spec == Init /\ [][Next]_vars

\* The timer fires, requests for the incidents are answered, messages arrive.
\* Nothing is assumed of operators, nor of other requests.
Fairness ==
    /\ WF_vars(Tick)
    /\ WF_vars(Incidents)
    /\ WF_vars(OnMessage)
    /\ WF_vars(PublishIncident)

FairSpec == Spec /\ Fairness

-----------------------------------------------------------------------------
(* Properties *)

\* The variables have their types.
TypeOK ==
    /\ notes \in [RunIds -> Nat]
    /\ resolved \in [RunIds -> BOOLEAN]
    /\ \A r \in RunIds : unannounced[r] \in 0..notes[r]
    /\ published <= version /\ version <= published + 1
    /\ shown \in 0..version
    /\ selected \in RunIds \cup {NoRun}
    /\ panel \in [run : RunIds \cup {NoRun}, notes : Nat, resolved : BOOLEAN]
    /\ \A i \in DOMAIN requests :
           /\ requests[i].kind \in {"run", "note", "resolve"}
           /\ requests[i].status \in {"sent", "stored", "answered"}
           /\ requests[i].run \in RunIds

\* No request for a run is on its way, and the last one issued was the last to settle.
Calm == Pending({"run"}) = 0 /\ ~inDoubt

\* The panel displays the selected run, the one that notes, flag and export go to,
\* once the last request for a run is answered; only a slower reply of an earlier
\* one, or a failed one, leaves another run under the operator's hands, and any
\* later load repairs it.
PanelIsSelected == TypeOK /\ (Calm => panel.run = selected)

NothingUnderWay ==
    /\ Calm /\ requests = <<>>
    /\ unannounced[selected] = 0
    /\ NoteMessage(selected) \notin Range(socket)

\* Then it also displays every note of that run, whoever wrote it and however
\* messages and replies crossed, and its flag unless another dashboard set it.
PanelIsCurrent ==
    selected # NoRun /\ NothingUnderWay =>
        /\ panel.notes = notes[selected]
        /\ panel.resolved = resolved[selected] \/ selected \in Range(elsewhere)

\* A reply that was on its way when a newer snapshot came over the socket takes the
\* timeline back; the refresh brings it forward again.
IncidentsConverge == <>[](shown = version)

=============================================================================
