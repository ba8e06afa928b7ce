------------------------------ MODULE Pipeline ------------------------------
(***************************************************************************)
(* The diagnostic pipeline of cmd/dashboard/pipeline.go: every ingest      *)
(* goroutine drives its events through the store, the hub, the rule engine *)
(* and the correlator.  Window, deduplication and correlation are under    *)
(* p.mu; the store and the hub are called outside it, so the outputs of    *)
(* two goroutines interleave in any order.                                 *)
(*                                                                         *)
(* The hub is its sequence of messages (Hub has the delivery), the store   *)
(* the rows it holds.  An incident is passed on as a snapshot, named by    *)
(* its position among the snapshots that Correlator returned.              *)
(***************************************************************************)
EXTENDS Rules

CONSTANTS
    Sources,        \* goroutines that call Publish: file tail, TCP connections
    Nobody,         \* the holder of a free p.mu
    Events,         \* the events a source may read
    WindowSize,     \* windowSize, 256 in the code
    MaxEvents,      \* bounds of the model: how many events are ingested, ...
    MaxStoreErrors, \* ... and how many writes of failures and incidents fail
    \* Those of Correlator.
    Runs, RuleIds, Actuators, Subsystem, CorrelationWindow, MaxTime, MaxFailures

ASSUME PipelineAssumption ==
    /\ Nobody \notin Sources
    /\ Events # {} /\ \A e \in Events : e.run \in Runs
    /\ WindowSize \in Nat \ {0}
    /\ MaxEvents \in Nat

\* A failure is dated to an event of its run and actuator.
DatedTo(f, e) == Key(e) = <<f.run, f.actuator>> /\ e.at = f.at

VARIABLES
    pc,          \* pc[g]: where in Publish goroutine g is
    event,       \* event[g]: the event it processes
    lock,        \* the goroutine that holds p.mu
    window,      \* pipeline.window
    seen,        \* pipeline.seen, the keys of the failures already flagged
    fresh,       \* fresh[g]: failures flagged for this event, not emitted yet
    toObserve,   \* toObserve[g]: failures of the evaluation the loop has not reached yet
    incidents,   \* incidents[g]: snapshots not emitted yet
    saved,       \* saved[g]: the head of fresh or incidents is in the store
    ingested,    \* how many events were ingested
    log,         \* the hub's messages, in the order of Seq, with their publisher
    failureRows, \* the failures stored, in order
    incidentRow  \* incidentRow[n]: the row of incident n, its snapshot and started_at

VARIABLE unsaved  \* history: the failures and snapshots whose write failed

VARIABLES seq, incident, open, heap, capacity, returned, observed

correlatorVars == <<seq, incident, open, heap, capacity, returned, observed>>
vars == <<pc, event, lock, window, seen, fresh, toObserve, incidents, saved, ingested,
          log, failureRows, incidentRow, unsaved, correlatorVars>>

\* The correlator the pipeline owns, used under p.mu only.
C == INSTANCE Correlator WITH Window <- CorrelationWindow

Init ==
    /\ pc = [g \in Sources |-> "idle"]
    /\ event = [g \in Sources |-> CHOOSE e \in Events : TRUE]
    /\ lock = Nobody
    /\ window = <<>>
    /\ seen = {}
    /\ fresh = [g \in Sources |-> <<>>]
    /\ toObserve = [g \in Sources |-> <<>>]
    /\ incidents = [g \in Sources |-> <<>>]
    /\ saved = [g \in Sources |-> FALSE]
    /\ ingested = 0
    /\ log = <<>>
    /\ failureRows = <<>>
    /\ incidentRow = <<>>
    /\ unsaved = [failures |-> {}, incidents |-> {}]
    /\ C!Init

Goto(g, from, to) == pc[g] = from /\ pc' = [pc EXCEPT ![g] = to]

-----------------------------------------------------------------------------

\* Mutation: the event is evaluated but not published.
RecordEventSkips(g, e) ==
    /\ Goto(g, "idle", "lock")
    /\ ingested < MaxEvents
    /\ ingested' = ingested + 1
    /\ event' = [event EXCEPT ![g] = e]
    /\ UNCHANGED <<lock, window, seen, fresh, toObserve, incidents, saved, log,
                   failureRows, incidentRow, unsaved, correlatorVars>>

\* A source reads an event and Publish records it; an error is only logged.
RecordEvent(g, e) ==
    /\ Goto(g, "idle", "publish")
    /\ ingested < MaxEvents
    /\ ingested' = ingested + 1
    /\ event' = [event EXCEPT ![g] = e]
    /\ UNCHANGED <<lock, window, seen, fresh, toObserve, incidents, saved, log,
                   failureRows, incidentRow, unsaved, correlatorVars>>

\* p.hub.Publish(ev)
PublishEvent(g) ==
    /\ Goto(g, "publish", "lock")
    /\ log' = Append(log, [kind |-> "log_event", body |-> event[g], by |-> g])
    /\ UNCHANGED <<event, lock, window, seen, fresh, toObserve, incidents, saved, ingested,
                   failureRows, incidentRow, unsaved, correlatorVars>>

\* The key of the seen map.
DedupKey(f) == <<f.rule, f.run, f.actuator, f.detail>>

Slide(w, e) ==
    LET longer == Append(w, e)
    IN  SubSeq(longer, IF Len(longer) > WindowSize THEN Len(longer) - WindowSize + 1 ELSE 1,
               Len(longer))

\* Lock, slide the window, evaluate it: the loop has these failures before it.
EvaluateWindow(g) ==
    /\ Goto(g, "lock", "observe")
    /\ lock = Nobody
    /\ lock' = g
    /\ window' = Slide(window, event[g])
    /\ \E failures \in Evaluate(RuleSet, window') :
           toObserve' = [toObserve EXCEPT ![g] = failures]
    /\ UNCHANGED <<event, seen, fresh, incidents, saved, ingested, log, failureRows,
                   incidentRow, unsaved, correlatorVars>>

\* The loop takes the next failure.
Take(g) ==
    /\ pc[g] = "observe"
    /\ toObserve[g] # <<>>
    /\ toObserve' = [toObserve EXCEPT ![g] = Tail(@)]
    /\ UNCHANGED <<pc, event, lock, window, saved, ingested, log, failureRows,
                   incidentRow, unsaved>>

\* It skips a failure whose key is in the map.
Skip(g) ==
    /\ Take(g)
    /\ DedupKey(Head(toObserve[g])) \in seen
    /\ UNCHANGED <<seen, fresh, incidents, correlatorVars>>

\* Mutation: the map is not extended.
FlagForgets(g) ==
    LET f == Head(toObserve[g])
    IN  /\ Take(g)
        /\ DedupKey(f) \notin seen
        /\ fresh' = [fresh EXCEPT ![g] = Append(@, f)]
        /\ C!Observe(f)
        /\ incidents' = [incidents EXCEPT ![g] = Append(@, Len(returned'))]
        /\ UNCHANGED seen

\* It flags any other, and the correlator observes it, still under the lock.
Flag(g) ==
    LET f == Head(toObserve[g])
    IN  /\ Take(g)
        /\ DedupKey(f) \notin seen
        /\ seen' = seen \cup {DedupKey(f)}
        /\ fresh' = [fresh EXCEPT ![g] = Append(@, f)]
        /\ C!Observe(f)
        /\ incidents' = [incidents EXCEPT ![g] = Append(@, Len(returned'))]

Unlock(g) ==
    /\ Goto(g, "observe", "failures")
    /\ toObserve[g] = <<>>
    /\ lock' = Nobody
    /\ UNCHANGED <<event, window, seen, fresh, toObserve, incidents, saved, ingested, log,
                   failureRows, incidentRow, unsaved, correlatorVars>>

\* A write fails (the disk is full, the database is locked); Publish logs it.
StoreFails(table, row) ==
    /\ Cardinality(unsaved.failures) + Cardinality(unsaved.incidents) < MaxStoreErrors
    /\ unsaved' = [unsaved EXCEPT ![table] = @ \cup {row}]

\* The loop over fresh: p.store.RecordFailure(f) ...
RecordFailure(g) ==
    /\ pc[g] = "failures" /\ fresh[g] # <<>> /\ ~saved[g]
    /\ \/ failureRows' = Append(failureRows, Head(fresh[g])) /\ UNCHANGED unsaved
       \/ StoreFails("failures", Head(fresh[g])) /\ UNCHANGED failureRows
    /\ saved' = [saved EXCEPT ![g] = TRUE]
    /\ UNCHANGED <<pc, event, lock, window, seen, fresh, toObserve, incidents, ingested, log,
                   incidentRow, correlatorVars>>

\* Mutation: the failure is pushed before it is stored.
PublishFailureFirst(g) ==
    /\ pc[g] = "failures" /\ fresh[g] # <<>>
    /\ log' = Append(log, [kind |-> "failure_highlight", body |-> Head(fresh[g]), by |-> g])
    /\ fresh' = [fresh EXCEPT ![g] = Tail(@)]
    /\ saved' = [saved EXCEPT ![g] = FALSE]
    /\ UNCHANGED <<pc, event, lock, window, seen, toObserve, incidents, ingested,
                   failureRows, incidentRow, unsaved, correlatorVars>>

\* Mutation: the loop continues with the next failure when the store failed.
PublishFailureIfStored(g) ==
    /\ pc[g] = "failures" /\ fresh[g] # <<>> /\ saved[g]
    /\ log' = IF Head(fresh[g]) \in unsaved.failures THEN log
              ELSE Append(log, [kind |-> "failure_highlight", body |-> Head(fresh[g]), by |-> g])
    /\ fresh' = [fresh EXCEPT ![g] = Tail(@)]
    /\ saved' = [saved EXCEPT ![g] = FALSE]
    /\ UNCHANGED <<pc, event, lock, window, seen, toObserve, incidents, ingested,
                   failureRows, incidentRow, unsaved, correlatorVars>>

\* ... then p.hub.PublishFailure(f), whether it was stored or not.
PublishFailure(g) ==
    /\ pc[g] = "failures" /\ fresh[g] # <<>> /\ saved[g]
    /\ log' = Append(log, [kind |-> "failure_highlight", body |-> Head(fresh[g]), by |-> g])
    /\ fresh' = [fresh EXCEPT ![g] = Tail(@)]
    /\ saved' = [saved EXCEPT ![g] = FALSE]
    /\ UNCHANGED <<pc, event, lock, window, seen, toObserve, incidents, ingested,
                   failureRows, incidentRow, unsaved, correlatorVars>>

FailuresDone(g) ==
    /\ Goto(g, "failures", "incidents")
    /\ fresh[g] = <<>>
    /\ UNCHANGED <<event, lock, window, seen, fresh, toObserve, incidents, saved, ingested,
                   log, failureRows, incidentRow, unsaved, correlatorVars>>

\* The id of the incident a snapshot is of.
IncidentOf(i) == returned[i].inc.id

\* Mutation: INSERT OR IGNORE, the first row stays.
UpsertIncidentIgnores(i) ==
    incidentRow @@ (IncidentOf(i) :> [snapshot |-> i, started |-> returned[i].inc.started])

\* The upsert by id: on conflict every column but started_at gets the new value.
UpsertIncident(i) ==
    LET n   == IncidentOf(i)
        row == [snapshot |-> i,
                started  |-> IF n \in DOMAIN incidentRow THEN incidentRow[n].started
                             ELSE returned[i].inc.started]
    IN  [m \in DOMAIN incidentRow \cup {n} |-> IF m = n THEN row ELSE incidentRow[m]]

\* The loop over incidents: p.store.SaveIncident(inc) ...
SaveIncident(g) ==
    /\ pc[g] = "incidents" /\ incidents[g] # <<>> /\ ~saved[g]
    /\ \/ incidentRow' = UpsertIncident(Head(incidents[g])) /\ UNCHANGED unsaved
       \/ StoreFails("incidents", Head(incidents[g])) /\ UNCHANGED incidentRow
    /\ saved' = [saved EXCEPT ![g] = TRUE]
    /\ UNCHANGED <<pc, event, lock, window, seen, fresh, toObserve, incidents, ingested, log,
                   failureRows, correlatorVars>>

\* ... then p.hub.PublishIncident(inc).
PublishIncident(g) ==
    /\ pc[g] = "incidents" /\ incidents[g] # <<>> /\ saved[g]
    /\ log' = Append(log, [kind |-> "incident", body |-> Head(incidents[g]), by |-> g])
    /\ incidents' = [incidents EXCEPT ![g] = Tail(@)]
    /\ saved' = [saved EXCEPT ![g] = FALSE]
    /\ UNCHANGED <<pc, event, lock, window, seen, fresh, toObserve, ingested,
                   failureRows, incidentRow, unsaved, correlatorVars>>

Return(g) ==
    /\ Goto(g, "incidents", "idle")
    /\ incidents[g] = <<>>
    /\ UNCHANGED <<event, lock, window, seen, fresh, toObserve, incidents, saved, ingested,
                   log, failureRows, incidentRow, unsaved, correlatorVars>>

Step(g) ==
    \/ PublishEvent(g)
    \/ EvaluateWindow(g)
    \/ Skip(g)
    \/ Flag(g)
    \/ Unlock(g)
    \/ RecordFailure(g)
    \/ PublishFailure(g)
    \/ FailuresDone(g)
    \/ SaveIncident(g)
    \/ PublishIncident(g)
    \/ Return(g)

Next == \E g \in Sources : Step(g) \/ \E e \in Events : RecordEvent(g, e)

Spec == Init /\ [][Next]_vars

\* Goroutines run, and p.mu goes round: sync.Mutex hands over to a waiter that has
\* starved for a millisecond.
FairSpec == Spec /\ \A g \in Sources : WF_vars(Step(g)) /\ SF_vars(EvaluateWindow(g))

-----------------------------------------------------------------------------
(* Properties *)

Kind(k) == {i \in DOMAIN log : log[i].kind = k}

\* The variables have their types; one goroutine is in the section of p.mu.
TypeOK ==
    /\ pc \in [Sources -> {"idle", "publish", "lock", "observe", "failures", "incidents"}]
    /\ event \in [Sources -> Events]
    /\ lock \in Sources \cup {Nobody}
    /\ \A g \in Sources : pc[g] = "observe" <=> lock = g
    /\ Range(window) \subseteq Events /\ Len(window) <= WindowSize
    /\ ingested \in 0..MaxEvents
    /\ \A g \in Sources : Range(incidents[g]) \subseteq DOMAIN returned
    /\ DOMAIN incidentRow \subseteq 1..seq

\* A failure is flagged once however many evaluations find it and however many
\* sources evaluate: what the seen map holds was pushed, or will be, just once.
FlaggedOnce ==
    /\ \A i, j \in Kind("failure_highlight") :
           DedupKey(log[i].body) = DedupKey(log[j].body) => i = j
    /\ LET pushed  == {DedupKey(log[i].body) : i \in Kind("failure_highlight")}
           pending == UNION {{DedupKey(f) : f \in Range(fresh[g])} : g \in Sources}
       IN  seen = pushed \cup pending /\ pushed \cap pending = {}

\* The types, and the map of what was flagged agrees with what was pushed.
FlagInv == TypeOK /\ FlaggedOnce

\* A dashboard that is told of a failure or an incident and asks the REST API for
\* its run finds it there, unless the store failed to write just that.
StoredBeforePushed ==
    /\ \A i \in Kind("failure_highlight") : log[i].body \in Range(failureRows) \cup unsaved.failures
    /\ \A i \in Kind("incident") :
           IncidentOf(log[i].body) \in DOMAIN incidentRow \/ log[i].body \in unsaved.incidents

\* The feed shows the event a failure is dated to before it shows the failure.
CauseBeforeEffect ==
    \A i \in Kind("failure_highlight") : \E j \in Kind("log_event") :
        j < i /\ DatedTo(log[i].body, log[j].body)

SnapshotsOf(n) == {i \in DOMAIN returned : IncidentOf(i) = n}
MessagesOf(n)  == {i \in Kind("incident") : IncidentOf(log[i].body) = n}
Newest(S)      == CHOOSE i \in S : \A j \in S : j <= i

\* The last message of incident n and, if it was written, the row are its latest
\* snapshot.
ShowsLatest(n) ==
    /\ \/ Newest(SnapshotsOf(n)) \in unsaved.incidents
       \/ incidentRow[n].snapshot = Newest(SnapshotsOf(n))
    /\ log[Newest(MessagesOf(n))].body = Newest(SnapshotsOf(n))

AllIdle == \A g \in Sources : pc[g] = "idle"

\* Once the sources are idle, store and dashboards have the latest grouping of an
\* incident that one goroutine fed, whatever the others did meanwhile.
LatestGroupingOfOne ==
    AllIdle => \A n \in 1..seq :
        (\A i, j \in MessagesOf(n) : log[i].by = log[j].by) => ShowsLatest(n)

\* "a client always sees the latest grouping for an incident id" (hub.go:100-101).
\* False of an incident that two goroutines fed: their saves and pushes race.
LatestGrouping == AllIdle => \A n \in 1..seq : ShowsLatest(n)

Pushed(k) == \E i \in Kind("failure_highlight") : DedupKey(log[i].body) = k

\* Whatever was marked as flagged gets pushed, and an incident that holds it, though
\* the goroutines take turns with the lock and no later evaluation would find it
\* new again: the pipeline always comes back to a state that owes no message.
FlaggedIsPushed ==
    []<>(\A n \in DOMAIN observed :
            /\ Pushed(DedupKey(observed[n]))
            /\ \E i \in Kind("incident") : log[i].body = n)

=============================================================================
