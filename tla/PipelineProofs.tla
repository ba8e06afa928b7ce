--------------------------- MODULE PipelineProofs ---------------------------
(***************************************************************************)
(* Proofs about Pipeline: what the goroutines that call Publish flag, emit *)
(* and store, for any number of them, any events, rules and failing writes.*)
(***************************************************************************)
EXTENDS Pipeline, RulesProofs

-----------------------------------------------------------------------------
(* The inductive invariant *)

\* The program counters, the lock and the window.
Control ==
    /\ pc \in [Sources -> {"idle", "publish", "lock", "observe", "failures", "incidents"}]
    /\ event \in [Sources -> Events]
    /\ lock \in Sources \cup {Nobody}
    /\ \A g \in Sources : pc[g] = "observe" <=> lock = g
    /\ window \in Seq(Events) /\ Len(window) <= WindowSize
    /\ ingested \in 0..MaxEvents

\* What a goroutine holds, and when.
Held ==
    /\ DOMAIN fresh = Sources /\ DOMAIN toObserve = Sources /\ DOMAIN incidents = Sources
    /\ saved \in [Sources -> BOOLEAN]
    /\ \A g \in Sources :
           /\ Sequence(fresh[g])
           /\ Sequence(toObserve[g])
           /\ incidents[g] \in Seq(1..Len(returned))
           /\ incidents[g] # <<>> => pc[g] \in {"observe", "failures", "incidents"}
           /\ saved[g] => \/ pc[g] = "failures" /\ fresh[g] # <<>>
                          \/ pc[g] = "incidents" /\ incidents[g] # <<>>

\* The correlator numbers its incidents, and a snapshot is of one of them.
Numbered ==
    /\ seq \in Nat
    /\ Sequence(incident) /\ Len(incident) = seq
    /\ \A n \in 1..seq : "id" \in DOMAIN incident[n] /\ incident[n].id = n
    /\ open \in [Runs -> 0..seq]
    /\ Sequence(returned)
    /\ \A i \in DOMAIN returned : IncidentOf(i) \in 1..seq

\* The hub's messages and the tables.
Stores ==
    /\ Sequence(log)
    /\ \A i \in Kind("log_event") : log[i].body \in Events
    /\ \A i \in Kind("incident") : log[i].body \in DOMAIN returned
    /\ Sequence(failureRows)
    /\ DOMAIN incidentRow \subseteq 1..seq
    /\ DOMAIN unsaved = {"failures", "incidents"}

Shown(f) == \E j \in Kind("log_event") : DatedTo(f, log[j].body)

\* The events whose failures are still to come were published.
Caused ==
    /\ \A g \in Sources : \A f \in Range(toObserve[g]) \cup Range(fresh[g]) : Shown(f)
    /\ \A e \in Range(window) : \E j \in Kind("log_event") : log[j].body = e
    /\ \A g \in Sources : pc[g] = "lock" => \E j \in Kind("log_event") : log[j].body = event[g]

PipelineTypes == Control /\ Held /\ Numbered /\ Stores /\ Caused

\* No two of the failures still to be pushed have one key.
PendingOnce ==
    \A g, h \in Sources : \A i \in DOMAIN fresh[g], j \in DOMAIN fresh[h] :
        DedupKey(fresh[g][i]) = DedupKey(fresh[h][j]) => g = h /\ i = j

\* Goroutine g got snapshot i from the correlator.
PushedBy(i, g) == \E k \in Kind("incident") : log[k].body = i /\ log[k].by = g
Got(i, g)      == i \in Range(incidents[g]) \/ PushedBy(i, g)

\* The snapshots a goroutine got are pushed in the order of their return.
InOrder ==
    /\ \A g \in Sources : \A i, j \in DOMAIN incidents[g] : i < j => incidents[g][i] < incidents[g][j]
    /\ \A i, j \in Kind("incident") : i < j /\ log[i].by = log[j].by => log[i].body < log[j].body
    /\ \A i \in Kind("incident") : \A m \in Range(incidents[log[i].by]) : log[i].body < m
    /\ \A i \in Kind("incident") : log[i].by \in Sources
    /\ \A i \in DOMAIN returned : \E g \in Sources : Got(i, g)

\* A snapshot whose save was tried.
Tried(i, g) == PushedBy(i, g) \/ (saved[g] /\ pc[g] = "incidents" /\ Head(incidents[g]) = i)
Feeds(g, n) == \A i \in SnapshotsOf(n) : \A h \in Sources : Got(i, h) => h = g

\* The row of an incident that one goroutine feeds is the latest of the snapshots
\* whose save was tried and did not fail.
RowsAreLatest ==
    /\ \A n \in DOMAIN incidentRow : incidentRow[n].snapshot \in SnapshotsOf(n)
    /\ \A g \in Sources, n \in 1..seq : Feeds(g, n) =>
           \A i \in SnapshotsOf(n) : Tried(i, g) =>
               \/ i \in unsaved.incidents
               \/ n \in DOMAIN incidentRow /\ i <= incidentRow[n].snapshot

\* An incident has a newest snapshot, and if it was pushed a newest message.
HaveNewest ==
    /\ \A n \in 1..seq : \E i \in SnapshotsOf(n) : \A j \in SnapshotsOf(n) : j <= i
    /\ \A n \in 1..seq : MessagesOf(n) = {} \/ \E i \in MessagesOf(n) : \A j \in MessagesOf(n) : j <= i

-----------------------------------------------------------------------------
(* The correlator *)

\* Observe returns one more snapshot, of an incident that is known or the next one.
LEMMA ObserveEffect ==
    ASSUME Numbered, NEW f, f.run \in Runs, C!Observe(f)
    PROVE  /\ Numbered'
           /\ Len(returned) \in Nat /\ DOMAIN returned = 1..Len(returned)
           /\ Len(returned') = Len(returned) + 1 /\ DOMAIN returned' = 1..(Len(returned) + 1)
           /\ \A i \in DOMAIN returned : IncidentOf(i)' = IncidentOf(i)
           /\ 1..seq \subseteq 1..seq'
           /\ \A n \in 1..seq' : n \in 1..seq \/ returned'[Len(returned) + 1].inc.id = n
<1> USE DEF Numbered
<1> DEFINE N == Len(returned)
<1>1. N \in Nat /\ DOMAIN returned = 1..N
  BY AppendOne
<1>2. open[f.run] \in 0..seq
  OBVIOUS
\* Appending a snapshot of incident n, 1 <= n <= seq'.
<1>3. ASSUME NEW snap, snap.inc.id \in 1..seq', seq' \in {seq, seq + 1},
             seq' = seq + 1 => snap.inc.id = seq + 1,
             returned' = Append(returned, snap)
      PROVE  /\ Sequence(returned')
             /\ \A i \in DOMAIN returned' : IncidentOf(i)' \in 1..seq'
             /\ Len(returned') = N + 1 /\ DOMAIN returned' = 1..(N + 1)
             /\ \A i \in DOMAIN returned : IncidentOf(i)' = IncidentOf(i)
             /\ 1..seq \subseteq 1..seq'
             /\ \A n \in 1..seq' : n \in 1..seq \/ returned'[N + 1].inc.id = n
  <2>1. /\ Sequence(returned')
        /\ Len(returned') = N + 1 /\ DOMAIN returned' = 1..(N + 1)
        /\ \A i \in 1..N : returned'[i] = returned[i]
        /\ returned'[N + 1] = snap
    BY <1>3, AppendOne
  <2>2. \A i \in DOMAIN returned : IncidentOf(i)' = IncidentOf(i)
    BY <2>1, <1>1 DEF IncidentOf
  <2>3. 1..seq \subseteq 1..seq'
    <3>1. seq \in Nat /\ (seq' = seq \/ seq' = seq + 1)
      BY <1>3
    <3> QED BY <3>1
  <2>4. returned'[N + 1].inc.id = snap.inc.id
    BY <2>1 DEF IncidentOf
  <2>5. \A i \in 1..(N + 1) : i \in 1..N \/ i = N + 1
    BY <1>1
  <2>6. ASSUME NEW i \in 1..(N + 1) PROVE IncidentOf(i)' \in 1..seq'
    <3>1. CASE i \in 1..N
      <4>1. returned'[i] = returned[i] /\ IncidentOf(i) \in 1..seq
        BY <2>1, <1>1, <3>1
      <4> QED BY <4>1, <2>3 DEF IncidentOf
    <3>2. CASE i = N + 1
      <4>1. returned'[i].inc.id \in 1..seq'
        BY <3>2, <2>4, <1>3
      <4> QED BY <4>1 DEF IncidentOf
    <3> QED BY <3>1, <3>2, <2>5, <2>6
  <2>7. ASSUME NEW n \in 1..seq' PROVE n \in 1..seq \/ returned'[N + 1].inc.id = n
    <3>1. CASE seq' = seq
      BY <3>1, <2>7
    <3>2. CASE seq' = seq + 1
      <4>1. seq \in Nat
        OBVIOUS
      <4>2. n \in 1..seq \/ n = seq + 1
        BY <4>1, <3>2, <2>7
      <4> QED BY <4>2, <3>2, <2>4, <1>3
    <3> QED BY <3>1, <3>2, <1>3
  <2> QED BY <2>1, <2>2, <2>3, <2>6, <2>7
<1>4. CASE C!Extend(f)
  <2> DEFINE n    == open[f.run]
             cur  == incident[n]
             ms   == C!Sorted(C!Members(cur), f)
             fits == cur.len < capacity[cur.arr]
             next == [cur EXCEPT !.arr = IF fits THEN @ ELSE Len(heap) + 1,
                                 !.len = @ + 1,
                                 !.started = ms[1].at,
                                 !.ended = IF f.at > @ THEN f.at ELSE @,
                                 !.root = C!MemberSubsystem(ms[1])]
             snap == [inc |-> next, members |-> ms]
  <2>1. /\ incident' = [incident EXCEPT ![n] = next]
        /\ returned' = Append(returned, snap)
        /\ seq' = seq /\ open' = open
    BY <1>4 DEF C!Extend, C!Snapshot
  <2>2. n \in 1..seq
    <3>1. n # 0
      BY <1>4 DEF C!Extend, C!Joins
    <3> QED BY <3>1, <1>2
  <2>3. "id" \in DOMAIN next /\ next.id = n
    <3>1. "id" \in DOMAIN cur /\ cur.id = n
      BY <2>2
    <3> HIDE DEF cur, ms, fits
    <3> QED BY <3>1
  <2> HIDE DEF next
  <2>4. snap.inc.id \in 1..seq' /\ seq' \in {seq, seq + 1}
    BY <2>1, <2>2, <2>3
  <2>5. PICK s : s = snap
    OBVIOUS
  <2>6. /\ Sequence(incident') /\ Len(incident') = seq
        /\ \A m \in 1..seq : incident'[m] = IF m = n THEN next ELSE incident[m]
    <3>1. PICK x : x = next
      OBVIOUS
    <3>2. PICK k : k = n
      OBVIOUS
    <3>3. incident' = [incident EXCEPT ![k] = x]
      BY <2>1, <3>1, <3>2
    <3> DEFINE S == Range(incident) \cup {x}
    <3>4. incident \in Seq(S) /\ x \in S
      BY DEF Sequence
    <3>5. DOMAIN incident = 1..seq
      BY AppendOne
    <3> HIDE DEF S
    <3>6. incident' \in Seq(S) /\ Len(incident') = seq
      BY <3>3, <3>4, <3>5, <2>2, <3>2
    <3>7. Sequence(incident')
      BY <3>6, SequenceOf
    <3> HIDE DEF n
    <3>8. \A m \in 1..seq : incident'[m] = IF m = k THEN x ELSE incident[m]
      BY <3>3, <3>5
    <3> QED BY <3>1, <3>2, <3>6, <3>7, <3>8
  <2>7. \A m \in 1..seq : "id" \in DOMAIN incident'[m] /\ incident'[m].id = m
    BY <2>6, <2>3
  <2> HIDE DEF snap, n
  <2>8. s.inc.id \in 1..seq' /\ returned' = Append(returned, s)
    BY <2>1, <2>4, <2>5
  <2>9. seq' = seq + 1 => s.inc.id = seq + 1
    BY <2>1
  <2> QED BY <2>1, <2>4, <2>6, <2>7, <2>8, <2>9, <1>1, <1>3
<1>5. CASE C!Start(f)
  <2> DEFINE inc  == [id |-> seq + 1, run |-> f.run, started |-> f.at, ended |-> f.at,
                      root |-> C!MemberSubsystem(f), arr |-> Len(heap) + 1, len |-> 1]
             snap == [inc |-> inc, members |-> <<f>>]
  <2>1. /\ incident' = Append(incident, inc)
        /\ returned' = Append(returned, snap)
        /\ seq' = seq + 1
        /\ open' = [open EXCEPT ![f.run] = seq + 1]
    BY <1>5 DEF C!Start, C!Snapshot
  <2>2. "id" \in DOMAIN inc /\ inc.id = seq + 1 /\ snap.inc.id = seq + 1
    OBVIOUS
  <2> HIDE DEF inc
  <2>3. PICK s : s = snap
    OBVIOUS
  <2>4. PICK x : x = inc
    OBVIOUS
  <2>5. /\ Sequence(incident') /\ Len(incident') = seq + 1
        /\ \A m \in 1..seq : incident'[m] = incident[m]
        /\ incident'[seq + 1] = x
    <3>1. incident' = Append(incident, x)
      BY <2>1, <2>4
    <3> QED BY <3>1, AppendOne
  <2>6. \A m \in 1..(seq + 1) : m \in 1..seq \/ m = seq + 1
    OBVIOUS
  <2>7. \A m \in 1..(seq + 1) : "id" \in DOMAIN incident'[m] /\ incident'[m].id = m
    BY <2>2, <2>4, <2>5, <2>6
  <2>8. open' \in [Runs -> 0..seq']
    BY <2>1
  <2> HIDE DEF snap
  <2>9. s.inc.id = seq + 1 /\ returned' = Append(returned, s)
    BY <2>1, <2>2, <2>3
  <2>10. s.inc.id \in 1..seq' /\ seq' \in {seq, seq + 1}
    BY <2>1, <2>9
  <2> QED BY <2>1, <2>5, <2>7, <2>8, <2>9, <2>10, <1>1, <1>3
<1> QED BY <1>4, <1>5 DEF C!Observe

-----------------------------------------------------------------------------
(* Types and causes *)

\* The window slides over the events, the newest at its end.
LEMMA SlideProperties ==
    ASSUME NEW w \in Seq(Events), Len(w) <= WindowSize, NEW e \in Events
    PROVE  /\ Slide(w, e) \in Seq(Events) /\ Len(Slide(w, e)) <= WindowSize
           /\ Range(Slide(w, e)) \subseteq Range(w) \cup {e}
<1> DEFINE longer == Append(w, e)
           first  == IF Len(longer) > WindowSize THEN Len(longer) - WindowSize + 1 ELSE 1
           slid   == SubSeq(longer, first, Len(longer))
<1>1. WindowSize \in Nat \ {0}
  BY PipelineAssumption
<1>2. longer \in Seq(Events) /\ Len(longer) \in Nat \ {0}
  OBVIOUS
<1>3. Range(longer) = Range(w) \cup {e}
  BY SequenceOf, AppendOne
<1> HIDE DEF longer
<1>4. first \in 1..Len(longer) /\ Len(longer) - first + 1 <= WindowSize
  BY <1>1, <1>2
<1> HIDE DEF first
<1>5. /\ slid \in Seq(Events) /\ Len(slid) = Len(longer) - first + 1
      /\ \A i \in 1..Len(slid) : slid[i] = longer[first + i - 1] /\ first + i - 1 \in 1..Len(longer)
  BY <1>2, <1>4
<1>6. Len(slid) \in 0..WindowSize
  BY <1>1, <1>2, <1>4, <1>5
<1>7. Slide(w, e) = slid
  BY DEF Slide, longer, first
<1>8. Range(slid) \subseteq Range(longer)
  <2>1. DOMAIN slid = 1..Len(slid) /\ DOMAIN longer = 1..Len(longer)
    BY <1>2, <1>5
  <2> QED BY <2>1, <1>5 DEF Range
<1> QED BY <1>3, <1>5, <1>6, <1>7, <1>8

\* The failures found in the window are those of published events, of known runs.
LEMMA EvaluationProperties ==
    ASSUME NEW w \in Seq(Events), NEW failures \in Evaluate(RuleSet, w)
    PROVE  /\ Sequence(failures)
           /\ \A f \in Range(failures) : \E e \in Range(w) : DatedTo(f, e)
  BY FailuresAreDated DEF DatedTo, Sequence

\* A goroutine moves on from one place to another.
LEMMA Moves ==
    ASSUME Control, NEW g \in Sources, NEW from, NEW to, Goto(g, from, to),
           to \in {"idle", "publish", "lock", "observe", "failures", "incidents"}
    PROVE  /\ pc[g] = from
           /\ pc' \in [Sources -> {"idle", "publish", "lock", "observe", "failures", "incidents"}]
           /\ \A h \in Sources : pc'[h] = IF h = g THEN to ELSE pc[h]
  BY DEF Control, Goto

\* The counters, the lock and the window agree: one goroutine is in the section.
LEMMA ControlStep == Control /\ [Next]_vars => Control'
<1> SUFFICES ASSUME Control, [Next]_vars PROVE Control'
  OBVIOUS
<1>1. ASSUME NEW g \in Sources, NEW e \in Events, RecordEvent(g, e) PROVE Control'
  <2>1. Goto(g, "idle", "publish")
    BY <1>1 DEF RecordEvent
  <2>2. event' \in [Sources -> Events]
    BY <1>1 DEF RecordEvent, Control
  <2>3. ingested' \in 0..MaxEvents
    BY <1>1, PipelineAssumption DEF RecordEvent, Control
  <2> QED BY <1>1, <2>1, <2>2, <2>3, Moves DEF RecordEvent, Control
<1>2. ASSUME NEW g \in Sources, PublishEvent(g) PROVE Control'
  <2>1. Goto(g, "publish", "lock")
    BY <1>2 DEF PublishEvent
  <2> QED BY <1>2, <2>1, Moves DEF PublishEvent, Control
<1>3. ASSUME NEW g \in Sources, EvaluateWindow(g) PROVE Control'
  <2>1. Goto(g, "lock", "observe") /\ lock = Nobody /\ lock' = g
    BY <1>3 DEF EvaluateWindow
  <2>2. window' \in Seq(Events) /\ Len(window') <= WindowSize
    BY <1>3, SlideProperties DEF EvaluateWindow, Control
  <2>3. \A h \in Sources : pc'[h] = "observe" <=> lock' = h
    BY <2>1, Moves, PipelineAssumption DEF Control
  <2> QED BY <1>3, <2>1, <2>2, <2>3, Moves DEF EvaluateWindow, Control
<1>4. ASSUME NEW g \in Sources, Unlock(g) PROVE Control'
  <2>1. Goto(g, "observe", "failures") /\ lock' = Nobody
    BY <1>4 DEF Unlock
  <2>2. \A h \in Sources : pc'[h] = "observe" <=> lock' = h
    BY <2>1, Moves, PipelineAssumption DEF Control
  <2> QED BY <1>4, <2>1, <2>2, Moves DEF Unlock, Control
<1>5. ASSUME NEW g \in Sources, FailuresDone(g) PROVE Control'
  <2>1. Goto(g, "failures", "incidents")
    BY <1>5 DEF FailuresDone
  <2> QED BY <1>5, <2>1, Moves DEF FailuresDone, Control
<1>6. ASSUME NEW g \in Sources, Return(g) PROVE Control'
  <2>1. Goto(g, "incidents", "idle")
    BY <1>6 DEF Return
  <2> QED BY <1>6, <2>1, Moves DEF Return, Control
<1>7. ASSUME UNCHANGED <<pc, event, lock, window, ingested>> PROVE Control'
  BY <1>7 DEF Control
<1>8. ASSUME NEW g \in Sources,
             Skip(g) \/ Flag(g) \/ RecordFailure(g) \/ PublishFailure(g)
                 \/ SaveIncident(g) \/ PublishIncident(g)
      PROVE Control'
  <2>1. UNCHANGED <<pc, event, lock, window, ingested>>
    BY <1>8 DEF Skip, Flag, Take, RecordFailure, PublishFailure, SaveIncident, PublishIncident
  <2> QED BY <2>1, <1>7
<1> QED BY <1>1, <1>2, <1>3, <1>4, <1>5, <1>6, <1>7, <1>8 DEF Next, Step, vars

\* The failure at the head of the loop is dated to a published event of a known run.
LEMMA HeadIsShown ==
    ASSUME PipelineTypes, NEW g \in Sources, toObserve[g] # <<>>
    PROVE  /\ Head(toObserve[g]) \in Range(toObserve[g])
           /\ Shown(Head(toObserve[g])) /\ Head(toObserve[g]).run \in Runs
<1> DEFINE f == Head(toObserve[g])
<1>1. Sequence(toObserve[g])
  BY DEF PipelineTypes, Held
<1>2. f \in Range(toObserve[g])
  BY <1>1, HeadAndTail
<1>3. PICK j \in Kind("log_event") : DatedTo(f, log[j].body)
  BY <1>2 DEF PipelineTypes, Caused, Shown
<1>4. log[j].body \in Events
  BY <1>3 DEF PipelineTypes, Stores
<1>5. f.run = log[j].body.run
  BY <1>3 DEF DatedTo, Key
<1> QED BY <1>2, <1>3, <1>4, <1>5, PipelineAssumption DEF Shown

\* What Flag(g) does, in terms of sequences.
LEMMA FlagEffect ==
    ASSUME PipelineTypes, NEW g \in Sources, Flag(g)
    PROVE  /\ Numbered'
           /\ Len(returned) \in Nat /\ DOMAIN returned = 1..Len(returned)
           /\ Len(returned') = Len(returned) + 1 /\ DOMAIN returned' = 1..(Len(returned) + 1)
           /\ \A i \in DOMAIN returned : IncidentOf(i)' = IncidentOf(i)
           /\ 1..seq \subseteq 1..seq'
           /\ \A n \in 1..seq' : n \in 1..seq \/ returned'[Len(returned) + 1].inc.id = n
           /\ incidents' = [incidents EXCEPT ![g] = Append(@, Len(returned) + 1)]
<1>1. PICK f : f = Head(toObserve[g])
  OBVIOUS
<1>2. C!Observe(f) /\ f.run \in Runs
  BY <1>1, HeadIsShown DEF Flag, Take
<1>3. /\ Numbered'
      /\ Len(returned) \in Nat /\ DOMAIN returned = 1..Len(returned)
      /\ Len(returned') = Len(returned) + 1 /\ DOMAIN returned' = 1..(Len(returned) + 1)
      /\ \A i \in DOMAIN returned : IncidentOf(i)' = IncidentOf(i)
      /\ 1..seq \subseteq 1..seq'
      /\ \A n \in 1..seq' : n \in 1..seq \/ returned'[Len(returned) + 1].inc.id = n
  BY <1>2, ObserveEffect DEF PipelineTypes
<1>4. incidents' = [incidents EXCEPT ![g] = Append(@, Len(returned'))]
  BY DEF Flag
<1> QED BY <1>3, <1>4

\* The correlator only works for a goroutine that flags a failure.
LEMMA NumberedStep == PipelineTypes /\ [Next]_vars => Numbered'
<1> SUFFICES ASSUME PipelineTypes, [Next]_vars PROVE Numbered'
  OBVIOUS
<1>1. ASSUME NEW g \in Sources, Flag(g) PROVE Numbered'
  BY <1>1, FlagEffect
<1>2. ASSUME UNCHANGED correlatorVars PROVE Numbered'
  BY <1>2 DEF PipelineTypes, Numbered, correlatorVars, IncidentOf
<1>3. ASSUME NEW g \in Sources, Step(g), ~Flag(g) PROVE UNCHANGED correlatorVars
  BY <1>3 DEF Step, PublishEvent, EvaluateWindow, Skip, Unlock, RecordFailure, PublishFailure,
              FailuresDone, SaveIncident, PublishIncident, Return, correlatorVars
<1>4. ASSUME NEW g \in Sources, NEW e \in Events, RecordEvent(g, e) PROVE UNCHANGED correlatorVars
  BY <1>4 DEF RecordEvent, correlatorVars
<1> QED BY <1>1, <1>2, <1>3, <1>4 DEF Next, vars, correlatorVars

\* Appending a message keeps the messages before it and their kinds.
LEMMA MessageEffect ==
    ASSUME Sequence(log), NEW m, log' = Append(log, m)
    PROVE  /\ Sequence(log')
           /\ Len(log) \in Nat /\ DOMAIN log = 1..Len(log)
           /\ DOMAIN log' = 1..(Len(log) + 1)
           /\ \A i \in DOMAIN log : log'[i] = log[i] /\ i < Len(log) + 1
           /\ log'[Len(log) + 1] = m
           /\ \A k : Kind(k)' = Kind(k) \cup (IF m.kind = k THEN {Len(log) + 1} ELSE {})
           /\ \A k : Kind(k) \subseteq DOMAIN log
<1>1. /\ Sequence(log')
      /\ Len(log) \in Nat /\ DOMAIN log = 1..Len(log)
      /\ DOMAIN log' = 1..(Len(log) + 1)
      /\ \A i \in 1..Len(log) : log'[i] = log[i]
      /\ log'[Len(log) + 1] = m
  BY AppendOne
<1>2. \A i \in 1..(Len(log) + 1) : i \in 1..Len(log) \/ i = Len(log) + 1
  BY <1>1
<1>3. \A i \in 1..Len(log) : i \in 1..(Len(log) + 1) /\ i < Len(log) + 1
  BY <1>1
<1>4. Len(log) + 1 \in 1..(Len(log) + 1)
  BY <1>1
<1>5. ASSUME NEW k
      PROVE  Kind(k)' = Kind(k) \cup (IF m.kind = k THEN {Len(log) + 1} ELSE {})
  <2>1. Kind(k)' = {i \in 1..(Len(log) + 1) : log'[i].kind = k}
    BY <1>1 DEF Kind
  <2>2. Kind(k) = {i \in 1..Len(log) : log'[i].kind = k}
    BY <1>1 DEF Kind
  <2> QED BY <2>1, <2>2, <1>1, <1>2, <1>3, <1>4
<1>6. \A k : Kind(k) \subseteq DOMAIN log
  BY DEF Kind
<1> QED BY <1>1, <1>3, <1>5, <1>6

\* An action that pushes pushes one message; the others leave the log alone.
LEMMA LogStep ==
    ASSUME NEW g \in Sources, Step(g)
    PROVE  \/ PublishEvent(g)
           \/ PublishFailure(g)
           \/ PublishIncident(g)
           \/ UNCHANGED log
  BY DEF Step, EvaluateWindow, Skip, Flag, Take, Unlock, RecordFailure, FailuresDone,
         SaveIncident, Return

\* The types of the messages and the rows.
LEMMA StoresStep == PipelineTypes /\ [Next]_vars => Stores'
<1> SUFFICES ASSUME PipelineTypes, [Next]_vars PROVE Stores'
  OBVIOUS
<1>0. Stores /\ Sequence(log) /\ Sequence(failureRows)
  BY DEF PipelineTypes, Stores
<1>1. ASSUME NEW m, log' = Append(log, m),
             m.kind = "log_event" => m.body \in Events,
             m.kind = "incident" => m.body \in DOMAIN returned,
             UNCHANGED <<failureRows, incidentRow, unsaved, correlatorVars>>
      PROVE  Stores'
  <2>1. /\ Sequence(log')
        /\ \A i \in DOMAIN log : log'[i] = log[i]
        /\ log'[Len(log) + 1] = m
        /\ \A k : Kind(k)' = Kind(k) \cup (IF m.kind = k THEN {Len(log) + 1} ELSE {})
        /\ \A k : Kind(k) \subseteq DOMAIN log
    BY <1>0, <1>1, MessageEffect
  <2>2. \A i \in Kind("log_event")' : log'[i].body \in Events
    BY <2>1, <1>0, <1>1 DEF Stores
  <2>3. \A i \in Kind("incident")' : log'[i].body \in DOMAIN returned
    BY <2>1, <1>0, <1>1 DEF Stores
  <2> QED BY <2>1, <2>2, <2>3, <1>0, <1>1 DEF Stores, correlatorVars
<1>2. ASSUME NEW g \in Sources, PublishEvent(g) PROVE Stores'
  <2>1. PICK m : m = [kind |-> "log_event", body |-> event[g], by |-> g]
    OBVIOUS
  <2>2. m.kind = "log_event" /\ m.body \in Events
    BY <2>1 DEF PipelineTypes, Control
  <2> QED BY <1>1, <1>2, <2>1, <2>2 DEF PublishEvent
<1>3. ASSUME NEW g \in Sources, PublishFailure(g) PROVE Stores'
  <2>1. PICK m : m = [kind |-> "failure_highlight", body |-> Head(fresh[g]), by |-> g]
    OBVIOUS
  <2>2. m.kind = "failure_highlight"
    BY <2>1
  <2> QED BY <1>1, <1>3, <2>1, <2>2 DEF PublishFailure
<1>4. ASSUME NEW g \in Sources, PublishIncident(g) PROVE Stores'
  <2>1. PICK m : m = [kind |-> "incident", body |-> Head(incidents[g]), by |-> g]
    OBVIOUS
  <2>2. incidents[g] \in Seq(1..Len(returned)) /\ incidents[g] # <<>>
    BY <1>4 DEF PublishIncident, PipelineTypes, Held
  <2>3. DOMAIN returned = 1..Len(returned)
    BY AppendOne DEF PipelineTypes, Numbered
  <2>4. m.kind = "incident" /\ m.body \in DOMAIN returned
    BY <2>1, <2>2, <2>3
  <2> QED BY <1>1, <1>4, <2>1, <2>4 DEF PublishIncident
<1>5. ASSUME NEW g \in Sources, Flag(g) PROVE Stores'
  <2>1. UNCHANGED <<log, failureRows, incidentRow, unsaved>>
    BY <1>5 DEF Flag, Take
  <2>2. DOMAIN returned \subseteq DOMAIN returned' /\ 1..seq \subseteq 1..seq'
    BY <1>5, FlagEffect
  <2> QED BY <1>0, <2>1, <2>2 DEF Stores, Kind
<1>6. ASSUME NEW g \in Sources, RecordFailure(g) PROVE Stores'
  <2>1. PICK f : f = Head(fresh[g])
    OBVIOUS
  <2>2. UNCHANGED <<log, incidentRow, correlatorVars>>
    BY <1>6 DEF RecordFailure
  <2>3. Sequence(failureRows')
    <3>1. failureRows' = Append(failureRows, f) \/ failureRows' = failureRows
      BY <1>6, <2>1 DEF RecordFailure
    <3>2. Sequence(Append(failureRows, f))
      BY <1>0, AppendOne
    <3> QED BY <3>1, <3>2, <1>0
  <2>4. DOMAIN unsaved' = {"failures", "incidents"}
    BY <1>6, <1>0 DEF RecordFailure, StoreFails, Stores
  <2> QED BY <1>0, <2>2, <2>3, <2>4 DEF Stores, Kind, correlatorVars
<1>7. ASSUME NEW g \in Sources, SaveIncident(g) PROVE Stores'
  <2>1. UNCHANGED <<log, failureRows, correlatorVars>>
    BY <1>7 DEF SaveIncident
  <2>2. DOMAIN unsaved' = {"failures", "incidents"}
    BY <1>7, <1>0 DEF SaveIncident, StoreFails, Stores
  <2>3. IncidentOf(Head(incidents[g])) \in 1..seq
    <3>1. incidents[g] \in Seq(1..Len(returned)) /\ incidents[g] # <<>>
      BY <1>7 DEF SaveIncident, PipelineTypes, Held
    <3>2. DOMAIN returned = 1..Len(returned)
      BY AppendOne DEF PipelineTypes, Numbered
    <3> QED BY <3>1, <3>2 DEF PipelineTypes, Numbered
  <2>4. DOMAIN incidentRow' \subseteq 1..seq
    <3>1. incidentRow' = UpsertIncident(Head(incidents[g])) \/ incidentRow' = incidentRow
      BY <1>7 DEF SaveIncident
    <3> QED BY <3>1, <2>3, <1>0 DEF UpsertIncident, Stores
  <2> QED BY <1>0, <2>1, <2>2, <2>4 DEF Stores, Kind, correlatorVars
<1>8. ASSUME UNCHANGED <<log, failureRows, incidentRow, unsaved, correlatorVars>> PROVE Stores'
  BY <1>0, <1>8 DEF Stores, Kind, correlatorVars
<1>9. ASSUME NEW g \in Sources,
             EvaluateWindow(g) \/ Skip(g) \/ Unlock(g) \/ FailuresDone(g) \/ Return(g)
      PROVE  Stores'
  BY <1>8, <1>9 DEF EvaluateWindow, Skip, Take, Unlock, FailuresDone, Return
<1>10. ASSUME NEW g \in Sources, NEW e \in Events, RecordEvent(g, e) PROVE Stores'
  BY <1>8, <1>10 DEF RecordEvent
<1> QED BY <1>2, <1>3, <1>4, <1>5, <1>6, <1>7, <1>8, <1>9, <1>10 DEF Next, Step, vars

\* What was shown stays shown.
LEMMA ShownStays ==
    ASSUME PipelineTypes, [Next]_vars
    PROVE  /\ \A k : Kind(k) \subseteq Kind(k)'
           /\ \A k : \A i \in Kind(k) : log'[i] = log[i]
           /\ \A f : Shown(f) => Shown(f)'
<1>1. Sequence(log)
  BY DEF PipelineTypes, Stores
<1>2. (\E m : log' = Append(log, m)) \/ log' = log
  <2>1. ASSUME NEW g \in Sources, Step(g) PROVE (\E m : log' = Append(log, m)) \/ log' = log
    BY <2>1, LogStep DEF PublishEvent, PublishFailure, PublishIncident
  <2> QED BY <2>1 DEF Next, RecordEvent, vars
<1>3. (\A k : Kind(k) \subseteq Kind(k)') /\ (\A k : \A i \in Kind(k) : log'[i] = log[i])
  <2>1. CASE log' = log
    BY <2>1 DEF Kind
  <2>2. ASSUME NEW m, log' = Append(log, m)
        PROVE  (\A k : Kind(k) \subseteq Kind(k)') /\ (\A k : \A i \in Kind(k) : log'[i] = log[i])
    <3>1. /\ \A i \in DOMAIN log : log'[i] = log[i]
          /\ \A k : Kind(k)' = Kind(k) \cup (IF m.kind = k THEN {Len(log) + 1} ELSE {})
          /\ \A k : Kind(k) \subseteq DOMAIN log
      BY <1>1, <2>2, MessageEffect
    <3>2. \A k : \A i \in Kind(k) : log'[i] = log[i]
      BY <3>1
    <3> QED BY <3>1, <3>2
  <2> QED BY <1>2, <2>1, <2>2
<1>4. ASSUME NEW f, Shown(f) PROVE Shown(f)'
  <2>1. PICK j \in Kind("log_event") : DatedTo(f, log[j].body)
    BY <1>4 DEF Shown
  <2>2. j \in Kind("log_event")' /\ log'[j] = log[j]
    BY <1>3, <2>1
  <2> QED BY <2>1, <2>2 DEF Shown
<1> QED BY <1>3, <1>4

\* The events behind the failures in flight are on the feed.
LEMMA CausedStep == PipelineTypes /\ [Next]_vars => Caused'
<1> SUFFICES ASSUME PipelineTypes, [Next]_vars PROVE Caused'
  OBVIOUS
<1>0. Caused /\ Control /\ Held /\ Stores
  BY DEF PipelineTypes
<1> DEFINE OnFeed(e) == \E j \in Kind("log_event") : log[j].body = e
<1>a. \A e : OnFeed(e) => OnFeed(e)'
  <2>1. /\ \A k : Kind(k) \subseteq Kind(k)'
        /\ \A k : \A i \in Kind(k) : log'[i] = log[i]
    BY ShownStays
  <2> QED BY <2>1
<1>b. \A f : Shown(f) => Shown(f)'
  BY ShownStays
<1>c. /\ \A g \in Sources : \A f \in Range(toObserve[g]) \cup Range(fresh[g]) : Shown(f)
      /\ \A e \in Range(window) : OnFeed(e)
      /\ \A g \in Sources : pc[g] = "lock" => OnFeed(event[g])
  BY <1>0 DEF Caused
<1>d. ASSUME \A g \in Sources : \A f \in Range(toObserve'[g]) \cup Range(fresh'[g]) : Shown(f)',
             \A e \in Range(window') : OnFeed(e)',
             \A g \in Sources : pc'[g] = "lock" => \E e : e = event'[g] /\ OnFeed(e)'
      PROVE  Caused'
  BY <1>d DEF Caused
<1>e. ASSUME UNCHANGED window PROVE \A e \in Range(window') : OnFeed(e)'
  <2>1. Range(window') = Range(window)
    BY <1>e
  <2> HIDE DEF OnFeed
  <2> QED BY <2>1, <1>a, <1>c
<1>f. ASSUME UNCHANGED event, \A g \in Sources : pc'[g] = "lock" => pc[g] = "lock"
      PROVE  \A g \in Sources : pc'[g] = "lock" => \E e : e = event'[g] /\ OnFeed(e)'
  <2> HIDE DEF OnFeed
  <2> TAKE g \in Sources
  <2> HAVE pc'[g] = "lock"
  <2>1. PICK e : e = event[g]
    OBVIOUS
  <2>2. OnFeed(e)
    BY <2>1, <1>c, <1>f
  <2> QED BY <2>1, <2>2, <1>a, <1>f
<1>g. ASSUME \A g \in Sources : /\ Range(toObserve'[g]) \subseteq Range(toObserve[g])
                                /\ Range(fresh'[g]) \subseteq Range(fresh[g]) \cup Range(toObserve[g])
      PROVE  \A g \in Sources : \A f \in Range(toObserve'[g]) \cup Range(fresh'[g]) : Shown(f)'
  BY <1>g, <1>b, <1>c
<1> HIDE DEF OnFeed
<1>1. ASSUME NEW g \in Sources, NEW e \in Events, RecordEvent(g, e) PROVE Caused'
  <2>1. UNCHANGED <<window, toObserve, fresh>>
    BY <1>1 DEF RecordEvent
  <2>2. \A h \in Sources : pc'[h] = "lock" => pc[h] = "lock" /\ event'[h] = event[h]
    BY <1>1, <1>0 DEF RecordEvent, Goto, Control
  <2>3. \A h \in Sources : pc'[h] = "lock" => \E x : x = event'[h] /\ OnFeed(x)'
    <3> TAKE h \in Sources
    <3> HAVE pc'[h] = "lock"
    <3>1. PICK x : x = event[h]
      OBVIOUS
    <3> QED BY <3>1, <2>2, <1>a, <1>c
  <2> QED BY <2>1, <2>3, <1>d, <1>e, <1>g
<1>2. ASSUME NEW g \in Sources, PublishEvent(g) PROVE Caused'
  <2>1. UNCHANGED <<window, toObserve, fresh, event>>
    BY <1>2 DEF PublishEvent
  <2>2. PICK m : m = [kind |-> "log_event", body |-> event[g], by |-> g]
    OBVIOUS
  <2>3. /\ log'[Len(log) + 1] = m
        /\ \A k : Kind(k)' = Kind(k) \cup (IF m.kind = k THEN {Len(log) + 1} ELSE {})
    BY <1>2, <1>0, <2>2, MessageEffect DEF PublishEvent, Stores
  <2>4. PICK x : x = event[g]
    OBVIOUS
  <2>5. OnFeed(x)'
    <3>1. Len(log) + 1 \in Kind("log_event")' /\ log'[Len(log) + 1].body = x
      BY <2>2, <2>3, <2>4
    <3> QED BY <3>1 DEF OnFeed
  <2>6. \A h \in Sources : h # g /\ pc'[h] = "lock" => pc[h] = "lock"
    BY <1>2, <1>0 DEF PublishEvent, Goto, Control
  <2>7. \A h \in Sources : pc'[h] = "lock" => \E e : e = event'[h] /\ OnFeed(e)'
    <3> TAKE h \in Sources
    <3> HAVE pc'[h] = "lock"
    <3>1. PICK e : e = event[h]
      OBVIOUS
    <3> QED BY <3>1, <2>1, <2>4, <2>5, <2>6, <1>a, <1>c
  <2> QED BY <2>1, <2>7, <1>d, <1>e, <1>g
<1>3. ASSUME NEW g \in Sources, EvaluateWindow(g) PROVE Caused'
  <2>1. UNCHANGED <<fresh, event>> /\ \A h \in Sources : pc'[h] = "lock" => pc[h] = "lock"
    BY <1>3, <1>0 DEF EvaluateWindow, Goto, Control
  <2>2. PICK e \in Events : e = event[g] /\ OnFeed(e)
    BY <1>3, <1>0, <1>c DEF EvaluateWindow, Goto, Control
  <2>3. PICK w \in Seq(Events) : w = window' /\ Range(w) \subseteq Range(window) \cup {e}
    BY <1>3, <1>0, <2>2, SlideProperties DEF EvaluateWindow, Control
  <2>4. PICK failures \in Evaluate(RuleSet, w) : toObserve' = [toObserve EXCEPT ![g] = failures]
    BY <1>3, <2>3 DEF EvaluateWindow
  <2>5. \A x \in Range(w) : OnFeed(x)'
    BY <2>2, <2>3, <1>a, <1>c
  <2>6. \A f \in Range(failures) : Shown(f)'
    <3> TAKE f \in Range(failures)
    <3>1. PICK x \in Range(w) : DatedTo(f, x)
      BY EvaluationProperties
    <3>2. OnFeed(x)'
      BY <2>5
    <3> QED BY <3>1, <3>2 DEF Shown, OnFeed
  <2>7. \A h \in Sources : \A f \in Range(toObserve'[h]) \cup Range(fresh'[h]) : Shown(f)'
    <3> TAKE h \in Sources
    <3>1. toObserve'[h] = (IF h = g THEN failures ELSE toObserve[h]) /\ fresh'[h] = fresh[h]
      BY <2>1, <2>4, <1>0 DEF Held
    <3> QED BY <3>1, <2>6, <1>b, <1>c
  <2> QED BY <2>1, <2>3, <2>5, <2>7, <1>d, <1>f
<1>4. ASSUME NEW g \in Sources, Skip(g) \/ Flag(g) PROVE Caused'
  <2>1. UNCHANGED <<pc, event, window>> /\ toObserve[g] # <<>>
    BY <1>4 DEF Skip, Flag, Take
  <2>2. Sequence(toObserve[g]) /\ Sequence(fresh[g])
    BY <1>0 DEF Held
  <2>3. PICK f : f = Head(toObserve[g])
    OBVIOUS
  <2>4. /\ \A h \in Sources : toObserve'[h] = IF h = g THEN Tail(toObserve[g]) ELSE toObserve[h]
        /\ \/ \A h \in Sources : fresh'[h] = fresh[h]
           \/ \A h \in Sources : fresh'[h] = IF h = g THEN Append(fresh[g], f) ELSE fresh[h]
    BY <1>4, <2>3, <1>0 DEF Skip, Flag, Take, Held
  <2>5. Range(toObserve[g]) = Range(Tail(toObserve[g])) \cup {f}
    BY <2>1, <2>2, <2>3, HeadAndTail
  <2>6. Range(Append(fresh[g], f)) = Range(fresh[g]) \cup {f}
    BY <2>2, AppendOne
  <2> QED BY <2>1, <2>4, <2>5, <2>6, <1>d, <1>e, <1>f, <1>g
<1>5. ASSUME NEW g \in Sources, PublishFailure(g) PROVE Caused'
  <2>1. UNCHANGED <<pc, event, window, toObserve>> /\ fresh[g] # <<>>
    BY <1>5 DEF PublishFailure
  <2>2. \A h \in Sources : fresh'[h] = IF h = g THEN Tail(fresh[g]) ELSE fresh[h]
    BY <1>5, <1>0 DEF PublishFailure, Held
  <2>3. Range(fresh[g]) = Range(Tail(fresh[g])) \cup {Head(fresh[g])}
    BY <2>1, <1>0, HeadAndTail DEF Held
  <2> QED BY <2>1, <2>2, <2>3, <1>d, <1>e, <1>f, <1>g
<1>6. ASSUME UNCHANGED <<event, window, toObserve, fresh>>,
             \A g \in Sources : pc'[g] = "lock" => pc[g] = "lock"
      PROVE  Caused'
  BY <1>6, <1>d, <1>e, <1>f, <1>g
<1>7. ASSUME NEW g \in Sources,
             Unlock(g) \/ RecordFailure(g) \/ FailuresDone(g)
                 \/ SaveIncident(g) \/ PublishIncident(g) \/ Return(g)
      PROVE  Caused'
  <2>1. UNCHANGED <<event, window, toObserve, fresh>>
    BY <1>7 DEF Unlock, RecordFailure, FailuresDone, SaveIncident, PublishIncident, Return
  <2>2. \A h \in Sources : pc'[h] = "lock" => pc[h] = "lock"
    BY <1>7, <1>0 DEF Unlock, RecordFailure, FailuresDone, SaveIncident, PublishIncident, Return,
                      Goto, Control
  <2> QED BY <2>1, <2>2, <1>6
<1> QED BY <1>1, <1>2, <1>3, <1>4, <1>5, <1>6, <1>7 DEF Next, Step, vars

\* What a goroutine holds stays a sequence, and its flag tells of the head.
LEMMA HeldStep == PipelineTypes /\ [Next]_vars => Held'
<1> SUFFICES ASSUME PipelineTypes, [Next]_vars PROVE Held'
  OBVIOUS
<1>0. Held /\ Control
  BY DEF PipelineTypes
<1>1. ASSUME NEW g \in Sources, Flag(g) PROVE Held'
  <2>1. UNCHANGED <<pc, saved>> /\ pc[g] = "observe" /\ toObserve[g] # <<>>
        /\ toObserve' = [toObserve EXCEPT ![g] = Tail(@)]
    BY <1>1 DEF Flag, Take
  <2>2. PICK f : f = Head(toObserve[g])
    OBVIOUS
  <2>3. fresh' = [fresh EXCEPT ![g] = Append(@, f)]
    BY <1>1, <2>2 DEF Flag
  <2>4. PICK n : n = Len(returned)
    OBVIOUS
  <2>5. n \in Nat /\ Len(returned') = n + 1 /\ incidents' = [incidents EXCEPT ![g] = Append(@, n + 1)]
    BY <1>1, <2>4, FlagEffect
  <2>6. Sequence(Append(fresh[g], f)) /\ Append(fresh[g], f) # <<>>
    BY <1>0, AppendOne DEF Held
  <2>7. Sequence(Tail(toObserve[g]))
    BY <1>0, <2>1, HeadAndTail DEF Held
  <2>8. \A h \in Sources : incidents[h] \in Seq(1..(n + 1))
    <3> TAKE h \in Sources
    <3>1. incidents[h] \in Seq(1..n)
      BY <1>0, <2>4 DEF Held
    <3> QED BY <3>1, <2>5
  <2>9. Append(incidents[g], n + 1) \in Seq(1..(n + 1))
    BY <2>5, <2>8
  <2>10. /\ \A h \in Sources : fresh'[h] = IF h = g THEN Append(fresh[g], f) ELSE fresh[h]
         /\ \A h \in Sources : toObserve'[h] = IF h = g THEN Tail(toObserve[g]) ELSE toObserve[h]
         /\ \A h \in Sources : incidents'[h] = IF h = g THEN Append(incidents[g], n + 1) ELSE incidents[h]
         /\ DOMAIN fresh' = Sources /\ DOMAIN toObserve' = Sources /\ DOMAIN incidents' = Sources
    BY <2>1, <2>3, <2>5, <1>0 DEF Held
  <2>11. ~saved[g]
    BY <2>1, <1>0 DEF Held
  <2> QED BY <2>1, <2>5, <2>6, <2>7, <2>8, <2>9, <2>10, <2>11, <1>0 DEF Held
<1>a. ASSUME UNCHANGED returned,
             DOMAIN fresh' = Sources, DOMAIN toObserve' = Sources, DOMAIN incidents' = Sources,
             saved' \in [Sources -> BOOLEAN],
             \A g \in Sources :
                 /\ fresh'[g] \in {fresh[g], Tail(fresh[g])} /\ (fresh'[g] # fresh[g] => fresh[g] # <<>>)
                 /\ incidents'[g] \in {incidents[g], Tail(incidents[g])}
                 /\ incidents'[g] # incidents[g] => incidents[g] # <<>>
                 /\ Sequence(toObserve'[g])
                 /\ incidents'[g] # <<>> => pc'[g] \in {"observe", "failures", "incidents"}
                 /\ saved'[g] => \/ pc'[g] = "failures" /\ fresh'[g] # <<>>
                                 \/ pc'[g] = "incidents" /\ incidents'[g] # <<>>
      PROVE  Held'
  <2>1. ASSUME NEW g \in Sources PROVE Sequence(fresh'[g]) /\ incidents'[g] \in Seq(1..Len(returned))
    <3>1. Sequence(fresh'[g])
      <4>1. CASE fresh'[g] = fresh[g]
        BY <4>1, <1>0 DEF Held
      <4>2. CASE fresh'[g] # fresh[g]
        <5>1. fresh[g] # <<>> /\ fresh'[g] = Tail(fresh[g])
          BY <4>2, <1>a
        <5>2. Sequence(Tail(fresh[g]))
          BY <5>1, <1>0, HeadAndTail DEF Held
        <5> QED BY <5>1, <5>2
      <4> QED BY <4>1, <4>2
    <3>2. incidents'[g] \in Seq(1..Len(returned))
      <4>1. incidents[g] \in Seq(1..Len(returned))
        BY <1>0 DEF Held
      <4>2. PICK S : S = 1..Len(returned)
        OBVIOUS
      <4>3. incidents[g] # <<>> => Tail(incidents[g]) \in Seq(S)
        <5>1. incidents[g] \in Seq(S)
          BY <4>1, <4>2
        <5> QED BY <5>1
      <4> QED BY <4>1, <4>2, <4>3, <1>a
    <3> QED BY <3>1, <3>2
  <2> QED BY <1>a, <2>1 DEF Held
<1>2. ASSUME NEW g \in Sources, EvaluateWindow(g) PROVE Held'
  <2>1. /\ UNCHANGED <<fresh, incidents, saved, returned>>
        /\ pc' = [pc EXCEPT ![g] = "observe"] /\ pc[g] = "lock"
    BY <1>2 DEF EvaluateWindow, Goto, correlatorVars
  <2>2. PICK e \in Events : e = event[g]
    BY <1>0 DEF Control
  <2>3. PICK w \in Seq(Events) : w = window'
    BY <1>2, <1>0, <2>2, SlideProperties DEF EvaluateWindow, Control
  <2>4. PICK failures \in Evaluate(RuleSet, w) : toObserve' = [toObserve EXCEPT ![g] = failures]
    BY <1>2, <2>3 DEF EvaluateWindow
  <2>5. Sequence(failures)
    BY EvaluationProperties
  <2>6. \A h \in Sources : toObserve'[h] = IF h = g THEN failures ELSE toObserve[h]
    BY <2>4, <1>0 DEF Held
  <2>7. ~saved[g]
    BY <2>1, <1>0 DEF Held
  <2>8. DOMAIN toObserve' = Sources
    BY <2>4, <1>0 DEF Held
  <2>9. \A h \in Sources : pc'[h] = IF h = g THEN "observe" ELSE pc[h]
    BY <2>1, <1>0 DEF Control
  <2> QED BY <1>a, <1>0, <2>1, <2>5, <2>6, <2>7, <2>8, <2>9 DEF Held
<1>3. ASSUME NEW g \in Sources, Skip(g) PROVE Held'
  <2>1. /\ UNCHANGED <<pc, fresh, incidents, saved, returned>> /\ toObserve[g] # <<>>
        /\ toObserve' = [toObserve EXCEPT ![g] = Tail(@)]
    BY <1>3 DEF Skip, Take, correlatorVars
  <2>2. Sequence(Tail(toObserve[g]))
    BY <1>0, <2>1, HeadAndTail DEF Held
  <2>3. \A h \in Sources : toObserve'[h] = IF h = g THEN Tail(toObserve[g]) ELSE toObserve[h]
    BY <2>1, <1>0 DEF Held
  <2>4. DOMAIN toObserve' = Sources
    BY <2>1, <1>0 DEF Held
  <2> QED BY <1>a, <1>0, <2>1, <2>2, <2>3, <2>4 DEF Held
<1>4. ASSUME NEW g \in Sources, RecordFailure(g) \/ SaveIncident(g) PROVE Held'
  <2>1. /\ UNCHANGED <<pc, fresh, toObserve, incidents, returned>>
        /\ saved' = [saved EXCEPT ![g] = TRUE]
        /\ \/ pc[g] = "failures" /\ fresh[g] # <<>>
           \/ pc[g] = "incidents" /\ incidents[g] # <<>>
    BY <1>4 DEF RecordFailure, SaveIncident, correlatorVars
  <2>2. saved' \in [Sources -> BOOLEAN]
    BY <2>1, <1>0 DEF Held
  <2>3. \A h \in Sources : h # g => saved'[h] = saved[h]
    BY <2>1, <1>0 DEF Held
  <2> QED BY <1>a, <1>0, <2>1, <2>2, <2>3 DEF Held
<1>5. ASSUME NEW g \in Sources, PublishFailure(g) PROVE Held'
  <2>1. /\ UNCHANGED <<pc, toObserve, incidents, returned>> /\ fresh[g] # <<>>
        /\ saved' = [saved EXCEPT ![g] = FALSE]
        /\ fresh' = [fresh EXCEPT ![g] = Tail(@)]
    BY <1>5 DEF PublishFailure, correlatorVars
  <2>2. saved' \in [Sources -> BOOLEAN] /\ ~saved'[g]
    BY <2>1, <1>0 DEF Held
  <2>3. \A h \in Sources : h # g => saved'[h] = saved[h] /\ fresh'[h] = fresh[h]
    BY <2>1, <1>0 DEF Held
  <2>4. fresh'[g] = Tail(fresh[g]) /\ DOMAIN fresh' = Sources
    BY <2>1, <1>0 DEF Held
  <2> QED BY <1>a, <1>0, <2>1, <2>2, <2>3, <2>4 DEF Held
<1>6. ASSUME NEW g \in Sources, PublishIncident(g) PROVE Held'
  <2>1. /\ UNCHANGED <<pc, toObserve, fresh, returned>> /\ incidents[g] # <<>>
        /\ saved' = [saved EXCEPT ![g] = FALSE]
        /\ incidents' = [incidents EXCEPT ![g] = Tail(@)]
    BY <1>6 DEF PublishIncident, correlatorVars
  <2>2. saved' \in [Sources -> BOOLEAN] /\ ~saved'[g]
    BY <2>1, <1>0 DEF Held
  <2>3. \A h \in Sources : h # g => saved'[h] = saved[h] /\ incidents'[h] = incidents[h]
    BY <2>1, <1>0 DEF Held
  <2>4. incidents'[g] = Tail(incidents[g]) /\ DOMAIN incidents' = Sources
    BY <2>1, <1>0 DEF Held
  <2>5. pc[g] \in {"observe", "failures", "incidents"}
    BY <2>1, <1>0 DEF Held
  <2> QED BY <1>a, <1>0, <2>1, <2>2, <2>3, <2>4, <2>5 DEF Held
<1>b. ASSUME UNCHANGED <<fresh, toObserve, incidents, saved, returned>>,
             \A g \in Sources :
                 \/ pc'[g] = pc[g]
                 \/ ~saved[g] /\ (incidents[g] = <<>> \/ pc'[g] \in {"failures", "incidents"})
      PROVE  Held'
  BY <1>a, <1>b, <1>0 DEF Held
<1>7. ASSUME NEW g \in Sources,
             PublishEvent(g) \/ Unlock(g) \/ FailuresDone(g) \/ Return(g)
      PROVE  Held'
  <2>1. UNCHANGED <<fresh, toObserve, incidents, saved, returned>>
    BY <1>7 DEF PublishEvent, Unlock, FailuresDone, Return, correlatorVars
  <2>2. /\ \A h \in Sources : h # g => pc'[h] = pc[h]
        /\ \/ pc[g] = "publish" /\ pc'[g] = "lock"
           \/ pc[g] = "observe" /\ pc'[g] = "failures"
           \/ pc[g] = "failures" /\ pc'[g] = "incidents" /\ fresh[g] = <<>>
           \/ pc[g] = "incidents" /\ pc'[g] = "idle" /\ incidents[g] = <<>>
    BY <1>7, <1>0 DEF PublishEvent, Unlock, FailuresDone, Return, Goto, Control
  <2>3. ~saved[g] /\ (incidents[g] = <<>> \/ pc'[g] \in {"failures", "incidents"})
    BY <2>2, <1>0 DEF Held
  <2> QED BY <2>1, <2>2, <2>3, <1>b
<1>8. ASSUME NEW g \in Sources, NEW e \in Events, RecordEvent(g, e) PROVE Held'
  <2>1. /\ UNCHANGED <<fresh, toObserve, incidents, saved, returned>>
        /\ \A h \in Sources : h # g => pc'[h] = pc[h]
        /\ pc[g] = "idle"
    BY <1>8, <1>0 DEF RecordEvent, Goto, Control, correlatorVars
  <2>2. ~saved[g] /\ incidents[g] = <<>>
    BY <2>1, <1>0 DEF Held
  <2> QED BY <2>1, <2>2, <1>b
<1>9. CASE UNCHANGED vars
  BY <1>9, <1>b DEF vars, correlatorVars
<1> QED BY <1>1, <1>2, <1>3, <1>4, <1>5, <1>6, <1>7, <1>8, <1>9 DEF Next, Step

\* The initial state.
LEMMA InitTypes == Init => PipelineTypes
<1> SUFFICES ASSUME Init PROVE PipelineTypes
  OBVIOUS
<1>1. Control
  <2>1. (CHOOSE e \in Events : TRUE) \in Events
    BY PipelineAssumption
  <2>2. <<>> \in Seq(Events) /\ Len(<<>>) = 0
    OBVIOUS
  <2> QED BY <2>1, <2>2, PipelineAssumption DEF Init, Control
<1>2. returned = <<>> /\ incident = <<>> /\ seq = 0 /\ open = [r \in Runs |-> 0]
  BY DEF Init, C!Init
<1>3. Held
  <2>1. <<>> \in Seq(1..Len(returned))
    OBVIOUS
  <2> QED BY <2>1, EmptySequence DEF Init, Held
<1>4. Numbered
  BY <1>2, EmptySequence DEF Numbered
<1>5. Stores
  <2>1. Kind("log_event") = {} /\ Kind("incident") = {}
    BY EmptySequence DEF Init, Kind
  <2>2. DOMAIN incidentRow = {}
    BY EmptySequence DEF Init
  <2> QED BY <2>1, <2>2, EmptySequence DEF Init, Stores
<1>6. Caused
  BY EmptySequence DEF Init, Caused
<1> QED BY <1>1, <1>3, <1>4, <1>5, <1>6 DEF PipelineTypes

\* The types are an invariant by themselves.
LEMMA TypesInvariant == Spec => []PipelineTypes
<1>1. PipelineTypes /\ [Next]_vars => PipelineTypes'
  BY ControlStep, HeldStep, NumberedStep, StoresStep, CausedStep DEF PipelineTypes
<1> QED BY InitTypes, <1>1, PTL DEF Spec

-----------------------------------------------------------------------------
(* What is flagged is pushed once *)

Pending(k) == \E g \in Sources : \E i \in DOMAIN fresh[g] : DedupKey(fresh[g][i]) = k

\* FlaggedOnce, key by key.
OncePerKey ==
    /\ \A i, j \in Kind("failure_highlight") :
           DedupKey(log[i].body) = DedupKey(log[j].body) => i = j
    /\ \A k : k \in seen <=> Pushed(k) \/ Pending(k)
    /\ \A k : ~(Pushed(k) /\ Pending(k))

\* The two forms say the same.
LEMMA OncePerKeyMeans == OncePerKey <=> FlaggedOnce
<1> DEFINE pushed  == {DedupKey(log[i].body) : i \in Kind("failure_highlight")}
           pending == UNION {{DedupKey(f) : f \in Range(fresh[g])} : g \in Sources}
<1>1. \A k : k \in pushed <=> Pushed(k)
  BY DEF Pushed
<1>2. ASSUME NEW k PROVE k \in pending <=> Pending(k)
  BY DEF Pending, Range
<1>3. FlaggedOnce <=> /\ \A i, j \in Kind("failure_highlight") :
                            DedupKey(log[i].body) = DedupKey(log[j].body) => i = j
                      /\ seen = pushed \cup pending /\ pushed \cap pending = {}
  BY DEF FlaggedOnce
<1> HIDE DEF pushed, pending
<1> QED BY <1>1, <1>2, <1>3 DEF OncePerKey

\* The same of the next state.
LEMMA OncePerKeyMeansNext == OncePerKey' <=> FlaggedOnce'
  BY OncePerKeyMeans, PTL

\* A flagged failure has a new key and is pending from then on.
LEMMA FlagOnce ==
    ASSUME PipelineTypes, OncePerKey, PendingOnce, NEW g \in Sources, Flag(g)
    PROVE  OncePerKey' /\ PendingOnce'
<1>1. PICK f : f = Head(toObserve[g])
  OBVIOUS
<1>2. /\ DedupKey(f) \notin seen /\ seen' = seen \cup {DedupKey(f)}
      /\ fresh' = [fresh EXCEPT ![g] = Append(@, f)] /\ UNCHANGED log
  BY <1>1 DEF Flag, Take
<1>20. PICK more : more = Append(fresh[g], f)
  OBVIOUS
<1>3. PICK n \in Nat :
          /\ DOMAIN fresh[g] = 1..n /\ DOMAIN more = 1..(n + 1)
          /\ \A i \in 1..n : more[i] = fresh[g][i]
          /\ more[n + 1] = f
  <2>1. Sequence(fresh[g])
    BY DEF PipelineTypes, Held
  <2>2. /\ Len(fresh[g]) \in Nat
        /\ DOMAIN fresh[g] = 1..Len(fresh[g]) /\ DOMAIN more = 1..(Len(fresh[g]) + 1)
        /\ \A i \in 1..Len(fresh[g]) : more[i] = fresh[g][i]
        /\ more[Len(fresh[g]) + 1] = f
    BY <1>20, <2>1, AppendOne
  <2> QED BY <2>2
<1>4. \A h \in Sources : fresh'[h] = IF h = g THEN more ELSE fresh[h]
  BY <1>20, <1>2 DEF PipelineTypes, Held
<1>5. ~Pushed(DedupKey(f)) /\ ~Pending(DedupKey(f))
  BY <1>2 DEF OncePerKey
\* A pending failure of the next state was pending, at the same place, or is f.
<1>6. ASSUME NEW h \in Sources, NEW i \in DOMAIN fresh'[h]
      PROVE  \/ i \in DOMAIN fresh[h] /\ fresh'[h][i] = fresh[h][i]
             \/ h = g /\ i = n + 1 /\ fresh'[h][i] = f
  <2>1. CASE h = g
    <3>1. i \in 1..n \/ i = n + 1
      BY <1>3, <1>4, <1>6, <2>1
    <3> QED BY <1>3, <1>4, <2>1, <3>1
  <2> QED BY <1>4, <1>6, <2>1
<1>7. \A h \in Sources : \A i \in DOMAIN fresh[h] :
          i \in DOMAIN fresh'[h] /\ fresh'[h][i] = fresh[h][i]
  BY <1>3, <1>4
<1>8. n + 1 \in DOMAIN fresh'[g] /\ fresh'[g][n + 1] = f
  BY <1>3, <1>4
<1>9. \A k : Pending(k)' <=> Pending(k) \/ k = DedupKey(f)
  <2> TAKE k
  <2>1. Pending(k) => Pending(k)'
    BY <1>7 DEF Pending
  <2>2. k = DedupKey(f) => Pending(k)'
    BY <1>8 DEF Pending
  <2>3. Pending(k)' => Pending(k) \/ k = DedupKey(f)
    BY <1>6 DEF Pending
  <2> QED BY <2>1, <2>2, <2>3
<1>10. \A k : Pushed(k)' <=> Pushed(k)
  BY <1>2 DEF Pushed, Kind
<1>11. \A i, j \in Kind("failure_highlight")' :
          DedupKey(log'[i].body) = DedupKey(log'[j].body) => i = j
  BY <1>2 DEF Kind, OncePerKey
<1>12. OncePerKey'
  <2>1. \A k : (k \in seen)' <=> Pushed(k)' \/ Pending(k)'
    BY <1>2, <1>9, <1>10 DEF OncePerKey
  <2>2. \A k : ~(Pushed(k)' /\ Pending(k)')
    BY <1>5, <1>9, <1>10 DEF OncePerKey
  <2> QED BY <1>11, <2>1, <2>2 DEF OncePerKey
<1>13. PendingOnce'
  <2> SUFFICES ASSUME NEW h1 \in Sources, NEW h2 \in Sources,
                      NEW i \in DOMAIN fresh'[h1], NEW j \in DOMAIN fresh'[h2],
                      DedupKey(fresh'[h1][i]) = DedupKey(fresh'[h2][j])
               PROVE  h1 = h2 /\ i = j
    BY DEF PendingOnce
  <2>1. \/ i \in DOMAIN fresh[h1] /\ fresh'[h1][i] = fresh[h1][i]
        \/ h1 = g /\ i = n + 1 /\ fresh'[h1][i] = f
    BY <1>6
  <2>2. \/ j \in DOMAIN fresh[h2] /\ fresh'[h2][j] = fresh[h2][j]
        \/ h2 = g /\ j = n + 1 /\ fresh'[h2][j] = f
    BY <1>6
  <2>3. \A h \in Sources : \A k \in DOMAIN fresh[h] : DedupKey(fresh[h][k]) # DedupKey(f)
    BY <1>5 DEF Pending
  <2> QED BY <2>1, <2>2, <2>3 DEF PendingOnce
<1> QED BY <1>12, <1>13

\* The failure that is pushed was pending just once, and is pending no more.
LEMMA PublishFailureOnce ==
    ASSUME PipelineTypes, OncePerKey, PendingOnce, NEW g \in Sources, PublishFailure(g)
    PROVE  OncePerKey' /\ PendingOnce'
<1>1. PICK f : f = Head(fresh[g])
  OBVIOUS
<1>2. PICK m : m = [kind |-> "failure_highlight", body |-> f, by |-> g]
  OBVIOUS
<1>3. /\ fresh[g] # <<>> /\ log' = Append(log, m)
      /\ fresh' = [fresh EXCEPT ![g] = Tail(@)] /\ UNCHANGED seen
  BY <1>1, <1>2 DEF PublishFailure
<1>4. PICK n \in Nat \ {0} :
          /\ DOMAIN fresh[g] = 1..n /\ DOMAIN Tail(fresh[g]) = 1..(n - 1)
          /\ \A i \in 1..(n - 1) : Tail(fresh[g])[i] = fresh[g][i + 1]
          /\ fresh[g][1] = f
  <2>1. Sequence(fresh[g])
    BY DEF PipelineTypes, Held
  <2> QED BY <2>1, <1>1, <1>3, HeadAndTail
<1>5. \A h \in Sources : fresh'[h] = IF h = g THEN Tail(fresh[g]) ELSE fresh[h]
  BY <1>3 DEF PipelineTypes, Held
<1>6. /\ Len(log) \in Nat
      /\ \A i \in DOMAIN log : log'[i] = log[i] /\ i < Len(log) + 1
      /\ log'[Len(log) + 1] = m
      /\ \A k : Kind(k)' = Kind(k) \cup (IF m.kind = k THEN {Len(log) + 1} ELSE {})
      /\ \A k : Kind(k) \subseteq DOMAIN log
  BY <1>3, MessageEffect DEF PipelineTypes, Stores
<1>7. PICK l : l = Len(log) + 1
  OBVIOUS
<1>8. /\ Kind("failure_highlight")' = Kind("failure_highlight") \cup {l}
      /\ \A i \in Kind("failure_highlight") : log'[i] = log[i] /\ i # l
      /\ log'[l].body = f
  BY <1>2, <1>6, <1>7
<1>9. 1 \in DOMAIN fresh[g] /\ \A i \in 1..(n - 1) : i + 1 \in DOMAIN fresh[g] /\ i + 1 # 1
  BY <1>4
<1>10. Pending(DedupKey(f)) /\ ~Pushed(DedupKey(f))
  BY <1>4, <1>9 DEF Pending, OncePerKey
\* A pending failure of the next state was pending, not at the head of fresh[g].
<1>11. ASSUME NEW h \in Sources, NEW i \in DOMAIN fresh'[h]
       PROVE  \E j \in DOMAIN fresh[h] : /\ fresh'[h][i] = fresh[h][j]
                                         /\ j = IF h = g THEN i + 1 ELSE i
                                         /\ ~(h = g /\ j = 1)
  <2>1. CASE h = g
    <3>1. i \in 1..(n - 1)
      BY <1>4, <1>5, <1>11, <2>1
    <3> QED BY <1>4, <1>5, <1>9, <2>1, <3>1
  <2> QED BY <1>5, <1>11, <2>1
<1>12. \A k : Pending(k)' => Pending(k) /\ k # DedupKey(f)
  <2> TAKE k
  <2> HAVE Pending(k)'
  <2>1. PICK h \in Sources : \E i \in DOMAIN fresh'[h] : DedupKey(fresh'[h][i]) = k
    BY DEF Pending
  <2>2. PICK i \in DOMAIN fresh'[h] : DedupKey(fresh'[h][i]) = k
    BY <2>1
  <2>3. PICK j \in DOMAIN fresh[h] : fresh'[h][i] = fresh[h][j] /\ ~(h = g /\ j = 1)
    BY <1>11
  <2>4. DedupKey(fresh[h][j]) # DedupKey(fresh[g][1])
    BY <2>3, <1>9 DEF PendingOnce
  <2> QED BY <2>2, <2>3, <2>4, <1>4 DEF Pending
<1>13. \A k : Pending(k) => Pending(k)' \/ k = DedupKey(f)
  <2> TAKE k
  <2> HAVE Pending(k)
  <2>0. PICK h \in Sources : \E i \in DOMAIN fresh[h] : DedupKey(fresh[h][i]) = k
    BY DEF Pending
  <2>1. PICK i \in DOMAIN fresh[h] : DedupKey(fresh[h][i]) = k
    BY <2>0
  <2>2. CASE h = g /\ i # 1
    <3>1. i - 1 \in 1..(n - 1) /\ (i - 1) + 1 = i
      BY <1>4, <2>1, <2>2
    <3>2. i - 1 \in DOMAIN fresh'[g] /\ fresh'[g][i - 1] = fresh[g][i]
      BY <1>4, <1>5, <3>1
    <3> QED BY <2>1, <2>2, <3>2 DEF Pending
  <2>3. CASE h = g /\ i = 1
    BY <2>1, <2>3, <1>4
  <2>4. CASE h # g
    <3>1. fresh'[h] = fresh[h]
      BY <1>5, <2>4
    <3> QED BY <2>1, <3>1 DEF Pending
  <2> QED BY <2>2, <2>3, <2>4
<1>14. \A k : Pushed(k)' <=> Pushed(k) \/ k = DedupKey(f)
  BY <1>8 DEF Pushed
<1>15. OncePerKey'
  <2>1. ASSUME NEW i \in Kind("failure_highlight")', NEW j \in Kind("failure_highlight")',
               DedupKey(log'[i].body) = DedupKey(log'[j].body)
        PROVE  i = j
    <3>1. \A x \in Kind("failure_highlight") : DedupKey(log[x].body) # DedupKey(f)
      BY <1>10 DEF Pushed
    <3>2. (i = l \/ i \in Kind("failure_highlight")) /\ (j = l \/ j \in Kind("failure_highlight"))
      BY <1>8
    <3> QED BY <2>1, <3>1, <3>2, <1>8 DEF OncePerKey
  <2>2. \A k : (k \in seen)' <=> Pushed(k)' \/ Pending(k)'
    BY <1>3, <1>12, <1>13, <1>14, <1>10 DEF OncePerKey
  <2>3. \A k : ~(Pushed(k)' /\ Pending(k)')
    BY <1>12, <1>14 DEF OncePerKey
  <2> QED BY <2>1, <2>2, <2>3 DEF OncePerKey
<1>16. PendingOnce'
  <2> SUFFICES ASSUME NEW h1 \in Sources, NEW h2 \in Sources,
                      NEW i \in DOMAIN fresh'[h1], NEW j \in DOMAIN fresh'[h2],
                      DedupKey(fresh'[h1][i]) = DedupKey(fresh'[h2][j])
               PROVE  h1 = h2 /\ i = j
    BY DEF PendingOnce
  <2>1. PICK i0 \in DOMAIN fresh[h1] : fresh'[h1][i] = fresh[h1][i0] /\ i0 = IF h1 = g THEN i + 1 ELSE i
    BY <1>11
  <2>2. PICK j0 \in DOMAIN fresh[h2] : fresh'[h2][j] = fresh[h2][j0] /\ j0 = IF h2 = g THEN j + 1 ELSE j
    BY <1>11
  <2>3. h1 = h2 /\ i0 = j0
    BY <2>1, <2>2 DEF PendingOnce
  <2>4. CASE h1 = g
    <3>1. i \in 1..(n - 1) /\ j \in 1..(n - 1)
      BY <1>4, <1>5, <2>3, <2>4
    <3> QED BY <2>1, <2>2, <2>3, <2>4, <3>1
  <2> QED BY <2>1, <2>2, <2>3, <2>4
<1> QED BY <1>15, <1>16

\* Only Flag and PublishFailure touch what is flagged, pending or pushed.
LEMMA OnceStep ==
    PipelineTypes /\ OncePerKey /\ PendingOnce /\ [Next]_vars => OncePerKey' /\ PendingOnce'
<1> SUFFICES ASSUME PipelineTypes, OncePerKey, PendingOnce, [Next]_vars
             PROVE  OncePerKey' /\ PendingOnce'
  OBVIOUS
<1>1. ASSUME UNCHANGED <<seen, fresh>>, Kind("failure_highlight")' = Kind("failure_highlight"),
             \A i \in Kind("failure_highlight") : log'[i] = log[i]
      PROVE  OncePerKey' /\ PendingOnce'
  <2>1. (\A k : Pushed(k)' <=> Pushed(k)) /\ (\A k : Pending(k)' <=> Pending(k))
    BY <1>1 DEF Pushed, Pending
  <2> QED BY <1>1, <2>1 DEF OncePerKey, PendingOnce
<1>2. ASSUME NEW g \in Sources, PublishEvent(g) \/ PublishIncident(g)
      PROVE  OncePerKey' /\ PendingOnce'
  <2>1. PICK m : log' = Append(log, m) /\ m.kind \in {"log_event", "incident"}
    BY <1>2 DEF PublishEvent, PublishIncident
  <2>2. /\ \A i \in DOMAIN log : log'[i] = log[i]
        /\ \A k : Kind(k)' = Kind(k) \cup (IF m.kind = k THEN {Len(log) + 1} ELSE {})
        /\ \A k : Kind(k) \subseteq DOMAIN log
    BY <2>1, MessageEffect DEF PipelineTypes, Stores
  <2>3. UNCHANGED <<seen, fresh>>
    BY <1>2 DEF PublishEvent, PublishIncident
  <2> QED BY <1>1, <2>1, <2>2, <2>3
<1>3. ASSUME NEW g \in Sources,
             EvaluateWindow(g) \/ Skip(g) \/ Unlock(g) \/ RecordFailure(g) \/ FailuresDone(g)
                 \/ SaveIncident(g) \/ Return(g)
      PROVE  OncePerKey' /\ PendingOnce'
  <2>1. UNCHANGED <<seen, fresh, log>>
    BY <1>3 DEF EvaluateWindow, Skip, Take, Unlock, RecordFailure, FailuresDone, SaveIncident, Return
  <2> QED BY <1>1, <2>1 DEF Kind
<1>4. ASSUME NEW g \in Sources, NEW e \in Events, RecordEvent(g, e) PROVE OncePerKey' /\ PendingOnce'
  BY <1>1, <1>4 DEF RecordEvent, Kind
<1>5. CASE UNCHANGED vars
  BY <1>1, <1>5 DEF vars, Kind
<1> QED BY <1>2, <1>3, <1>4, <1>5, FlagOnce, PublishFailureOnce DEF Next, Step

\* Nothing is flagged at first.
LEMMA InitOnce == Init => OncePerKey /\ PendingOnce
<1> SUFFICES ASSUME Init PROVE OncePerKey /\ PendingOnce
  OBVIOUS
<1>1. Kind("failure_highlight") = {} /\ \A g \in Sources : DOMAIN fresh[g] = {}
  BY EmptySequence DEF Init, Kind
<1>2. seen = {}
  BY DEF Init
<1> QED BY <1>1, <1>2 DEF OncePerKey, PendingOnce, Pushed, Pending

\* Control and the types of the correlator give the types that the run checks.
LEMMA TypesSuffice == PipelineTypes => TypeOK
<1> SUFFICES ASSUME PipelineTypes PROVE TypeOK
  OBVIOUS
<1>1. Range(window) \subseteq Events
  BY SequenceOf DEF PipelineTypes, Control
<1>2. ASSUME NEW g \in Sources PROVE Range(incidents[g]) \subseteq DOMAIN returned
  <2>1. DOMAIN returned = 1..Len(returned)
    BY AppendOne DEF PipelineTypes, Numbered
  <2>2. PICK S : S = 1..Len(returned)
    OBVIOUS
  <2>3. incidents[g] \in Seq(S)
    BY <2>2 DEF PipelineTypes, Held
  <2> QED BY <2>1, <2>2, <2>3, SequenceOf
<1> QED BY <1>1, <1>2 DEF TypeOK, PipelineTypes, Control, Stores

\* A failure is flagged once, however many evaluations of however many goroutines
\* find it: what the seen map holds was pushed, or will be, just once.
THEOREM FlaggedJustOnce == Spec => []FlagInv
<1>1. Init => PipelineTypes /\ OncePerKey /\ PendingOnce
  BY InitTypes, InitOnce
<1>2. /\ PipelineTypes /\ OncePerKey /\ PendingOnce /\ PipelineTypes' /\ [Next]_vars
      => OncePerKey' /\ PendingOnce'
  BY OnceStep
<1>3. PipelineTypes /\ OncePerKey => FlagInv
  BY TypesSuffice, OncePerKeyMeans DEF FlagInv
<1> QED BY <1>1, <1>2, <1>3, TypesInvariant, PTL DEF Spec

-----------------------------------------------------------------------------
(* What is pushed was stored *)

FailureStored(f)  == f \in Range(failureRows) \cup unsaved.failures
IncidentStored(i) == i \in DOMAIN returned
                     /\ (IncidentOf(i) \in DOMAIN incidentRow \/ i \in unsaved.incidents)

\* The tables, the snapshots and the record of failed writes only grow.
LEMMA StoresGrow ==
    ASSUME PipelineTypes, [Next]_vars
    PROVE  /\ Range(failureRows) \subseteq Range(failureRows')
           /\ unsaved.failures \subseteq unsaved'.failures
           /\ unsaved.incidents \subseteq unsaved'.incidents
           /\ DOMAIN incidentRow \subseteq DOMAIN incidentRow'
           /\ \A i \in DOMAIN returned : i \in DOMAIN returned' /\ IncidentOf(i)' = IncidentOf(i)
<1> DEFINE Goal == /\ Range(failureRows) \subseteq Range(failureRows')
                   /\ unsaved.failures \subseteq unsaved'.failures
                   /\ unsaved.incidents \subseteq unsaved'.incidents
                   /\ DOMAIN incidentRow \subseteq DOMAIN incidentRow'
                   /\ \A i \in DOMAIN returned : i \in DOMAIN returned' /\ IncidentOf(i)' = IncidentOf(i)
<1>1. ASSUME UNCHANGED <<failureRows, unsaved, incidentRow, returned>> PROVE Goal
  BY <1>1 DEF IncidentOf
<1>2. ASSUME NEW g \in Sources, Flag(g) PROVE Goal
  <2>1. UNCHANGED <<failureRows, unsaved, incidentRow>>
    BY <1>2 DEF Flag, Take
  <2>2. \A i \in DOMAIN returned : i \in DOMAIN returned' /\ IncidentOf(i)' = IncidentOf(i)
    BY <1>2, FlagEffect
  <2> QED BY <2>1, <2>2
<1>3. ASSUME NEW g \in Sources, RecordFailure(g) PROVE Goal
  <2>1. PICK f : f = Head(fresh[g])
    OBVIOUS
  <2>2. UNCHANGED <<incidentRow, returned>>
    BY <1>3 DEF RecordFailure, correlatorVars
  <2>3. failureRows' = Append(failureRows, f) \/ failureRows' = failureRows
    BY <1>3, <2>1 DEF RecordFailure
  <2>4. Range(Append(failureRows, f)) = Range(failureRows) \cup {f}
    BY AppendOne DEF PipelineTypes, Stores
  <2>5. unsaved.failures \subseteq unsaved'.failures /\ unsaved.incidents \subseteq unsaved'.incidents
    BY <1>3 DEF RecordFailure, StoreFails, PipelineTypes, Stores
  <2> QED BY <2>2, <2>3, <2>4, <2>5 DEF IncidentOf
<1>4. ASSUME NEW g \in Sources, SaveIncident(g) PROVE Goal
  <2>1. UNCHANGED <<failureRows, returned>>
    BY <1>4 DEF SaveIncident, correlatorVars
  <2>2. DOMAIN incidentRow \subseteq DOMAIN incidentRow'
    BY <1>4 DEF SaveIncident, UpsertIncident
  <2>3. unsaved.failures \subseteq unsaved'.failures /\ unsaved.incidents \subseteq unsaved'.incidents
    BY <1>4 DEF SaveIncident, StoreFails, PipelineTypes, Stores
  <2> QED BY <2>1, <2>2, <2>3 DEF IncidentOf
<1>5. ASSUME NEW g \in Sources,
             PublishEvent(g) \/ EvaluateWindow(g) \/ Skip(g) \/ Unlock(g) \/ PublishFailure(g)
                 \/ FailuresDone(g) \/ PublishIncident(g) \/ Return(g)
      PROVE  Goal
  <2>1. UNCHANGED <<failureRows, unsaved, incidentRow, returned>>
    BY <1>5 DEF PublishEvent, EvaluateWindow, Skip, Take, Unlock, PublishFailure, FailuresDone,
                PublishIncident, Return, correlatorVars
  <2> QED BY <2>1, <1>1
<1>6. ASSUME NEW g \in Sources, NEW e \in Events, RecordEvent(g, e) PROVE Goal
  BY <1>1, <1>6 DEF RecordEvent, correlatorVars
<1>7. CASE UNCHANGED vars
  BY <1>1, <1>7 DEF vars, correlatorVars
<1> QED BY <1>2, <1>3, <1>4, <1>5, <1>6, <1>7 DEF Next, Step

\* A head that is marked as stored stays the head, or was just sent to the store.
LEMMA SavedStep ==
    ASSUME PipelineTypes, [Next]_vars, NEW h \in Sources, saved'[h]
    PROVE  \/ /\ saved[h] /\ pc'[h] = pc[h]
              /\ fresh'[h] = fresh[h] /\ incidents'[h] = incidents[h]
           \/ RecordFailure(h)
           \/ SaveIncident(h)
<1>0. Held /\ Control
  BY DEF PipelineTypes
<1> DEFINE Same == /\ saved[h] /\ pc'[h] = pc[h]
                   /\ fresh'[h] = fresh[h] /\ incidents'[h] = incidents[h]
<1>1. ASSUME NEW g \in Sources, g # h, Step(g) PROVE Same
  <2>1. saved'[h] = saved[h]
    BY <1>1, <1>0 DEF Held, Step, PublishEvent, EvaluateWindow, Skip, Flag, Take, Unlock, RecordFailure,
                      PublishFailure, FailuresDone, SaveIncident, PublishIncident, Return
  <2>2. pc'[h] = pc[h]
    BY <1>1, <1>0 DEF Control, Step, PublishEvent, EvaluateWindow, Skip, Flag, Take, Unlock, RecordFailure,
                      PublishFailure, FailuresDone, SaveIncident, PublishIncident, Return, Goto
  <2>3. fresh'[h] = fresh[h]
    BY <1>1, <1>0 DEF Held, Step, PublishEvent, EvaluateWindow, Skip, Flag, Take, Unlock, RecordFailure,
                      PublishFailure, FailuresDone, SaveIncident, PublishIncident, Return
  <2>4. incidents'[h] = incidents[h]
    BY <1>1, <1>0 DEF Held, Step, PublishEvent, EvaluateWindow, Skip, Flag, Take, Unlock, RecordFailure,
                      PublishFailure, FailuresDone, SaveIncident, PublishIncident, Return
  <2> QED BY <2>1, <2>2, <2>3, <2>4
<1>2. CASE PublishFailure(h) \/ PublishIncident(h)
  BY <1>2, <1>0 DEF Held, PublishFailure, PublishIncident
<1>3. CASE PublishEvent(h) \/ EvaluateWindow(h) \/ Unlock(h) \/ FailuresDone(h) \/ Return(h)
  BY <1>3, <1>0 DEF Held, Goto, PublishEvent, EvaluateWindow, Unlock, FailuresDone, Return
<1>4. CASE Skip(h) \/ Flag(h)
  BY <1>4, <1>0 DEF Held, Skip, Flag, Take
<1>5. ASSUME NEW g \in Sources, NEW e \in Events, RecordEvent(g, e) PROVE Same
  <2>1. UNCHANGED <<saved, fresh, incidents>> /\ pc[g] = "idle" /\ (g # h => pc'[h] = pc[h])
    BY <1>5, <1>0 DEF RecordEvent, Goto, Control
  <2>2. g # h
    BY <2>1, <1>0 DEF Held
  <2> QED BY <2>1, <2>2
<1>6. CASE UNCHANGED vars
  BY <1>6 DEF vars
<1> QED BY <1>1, <1>2, <1>3, <1>4, <1>5, <1>6 DEF Next, Step

\* StoredBeforePushed in the terms above.
PushedAreStored ==
    /\ \A i \in Kind("failure_highlight") : FailureStored(log[i].body)
    /\ \A i \in Kind("incident") : IncidentStored(log[i].body)

StoredHeads ==
    \A g \in Sources : saved[g] =>
        /\ pc[g] = "failures" => FailureStored(Head(fresh[g]))
        /\ pc[g] = "incidents" => IncidentStored(Head(incidents[g]))

\* What was stored stays stored.
LEMMA StoredStays ==
    ASSUME PipelineTypes, [Next]_vars
    PROVE  /\ \A f : FailureStored(f) => FailureStored(f)'
           /\ \A i : IncidentStored(i) => IncidentStored(i)'
<1>1. /\ Range(failureRows) \subseteq Range(failureRows')
      /\ unsaved.failures \subseteq unsaved'.failures
      /\ unsaved.incidents \subseteq unsaved'.incidents
      /\ DOMAIN incidentRow \subseteq DOMAIN incidentRow'
      /\ \A i \in DOMAIN returned : i \in DOMAIN returned' /\ IncidentOf(i)' = IncidentOf(i)
  BY StoresGrow
<1>2. ASSUME NEW f, FailureStored(f) PROVE FailureStored(f)'
  BY <1>1, <1>2 DEF FailureStored
<1>3. ASSUME NEW i, IncidentStored(i) PROVE IncidentStored(i)'
  <2>1. i \in DOMAIN returned /\ IncidentOf(i)' = IncidentOf(i) /\ i \in DOMAIN returned'
    BY <1>1, <1>3 DEF IncidentStored
  <2> QED BY <1>1, <1>3, <2>1 DEF IncidentStored
<1> QED BY <1>2, <1>3

\* The head of the loop over incidents is a snapshot.
LEMMA HeadIsSnapshot ==
    ASSUME PipelineTypes, NEW g \in Sources, incidents[g] # <<>>
    PROVE  /\ Head(incidents[g]) \in DOMAIN returned /\ Head(incidents[g]) = incidents[g][1]
           /\ Head(incidents[g]) \in Range(incidents[g])
<1>1. PICK S : S = 1..Len(returned) /\ S = DOMAIN returned
  BY AppendOne DEF PipelineTypes, Numbered
<1>2. incidents[g] \in Seq(S)
  BY <1>1 DEF PipelineTypes, Held
<1>3. Sequence(incidents[g]) /\ Range(incidents[g]) \subseteq S
  BY <1>2, SequenceOf
<1>4. Head(incidents[g]) = incidents[g][1] /\ Head(incidents[g]) \in Range(incidents[g])
  BY <1>3, HeadAndTail
<1> QED BY <1>1, <1>3, <1>4

\* A goroutine marks a head as stored when it went through the store.
LEMMA HeadsStep ==
    PipelineTypes /\ StoredHeads /\ [Next]_vars => StoredHeads'
<1> SUFFICES ASSUME PipelineTypes, StoredHeads, [Next]_vars, NEW h \in Sources, saved'[h]
             PROVE  /\ pc'[h] = "failures" => FailureStored(Head(fresh[h]))'
                    /\ pc'[h] = "incidents" => IncidentStored(Head(incidents[h]))'
  BY DEF StoredHeads
<1>1. PICK f : f = Head(fresh[h])
  OBVIOUS
<1>2. PICK i : i = Head(incidents[h])
  OBVIOUS
<1>3. CASE saved[h] /\ pc'[h] = pc[h] /\ fresh'[h] = fresh[h] /\ incidents'[h] = incidents[h]
  <2>1. /\ pc[h] = "failures" => FailureStored(f)
        /\ pc[h] = "incidents" => IncidentStored(i)
    BY <1>1, <1>2, <1>3 DEF StoredHeads
  <2>2. /\ pc[h] = "failures" => FailureStored(f)'
        /\ pc[h] = "incidents" => IncidentStored(i)'
    BY <2>1, StoredStays
  <2>3. f = Head(fresh'[h]) /\ i = Head(incidents'[h])
    BY <1>1, <1>2, <1>3
  <2> QED BY <1>3, <2>2, <2>3 DEF FailureStored, IncidentStored, IncidentOf
<1>4. CASE RecordFailure(h)
  <2>1. pc'[h] = "failures" /\ fresh'[h] = fresh[h] /\ f = Head(fresh'[h])
    BY <1>1, <1>4 DEF RecordFailure
  <2>2. FailureStored(f)'
    <3>1. Range(Append(failureRows, f)) = Range(failureRows) \cup {f}
      BY AppendOne DEF PipelineTypes, Stores
    <3>2. \/ failureRows' = Append(failureRows, f)
          \/ unsaved' = [unsaved EXCEPT !.failures = @ \cup {f}]
      BY <1>1, <1>4 DEF RecordFailure, StoreFails
    <3>3. DOMAIN unsaved = {"failures", "incidents"}
      BY DEF PipelineTypes, Stores
    <3>4. f \in Range(failureRows') \/ f \in unsaved'.failures
      BY <3>1, <3>2, <3>3
    <3> QED BY <3>4 DEF FailureStored
  <2> QED BY <2>1, <2>2 DEF FailureStored
<1>5. CASE SaveIncident(h)
  <2>1. /\ pc'[h] = "incidents" /\ incidents'[h] = incidents[h] /\ i = Head(incidents'[h])
        /\ incidents[h] # <<>> /\ returned' = returned
    BY <1>2, <1>5 DEF SaveIncident, correlatorVars
  <2>2. IncidentStored(i)'
    <3>1. i \in DOMAIN returned
      BY <1>2, <2>1, HeadIsSnapshot
    <3>2. \/ incidentRow' = UpsertIncident(i)
          \/ unsaved' = [unsaved EXCEPT !.incidents = @ \cup {i}]
      BY <1>2, <1>5 DEF SaveIncident, StoreFails
    <3>3. DOMAIN unsaved = {"failures", "incidents"}
      BY DEF PipelineTypes, Stores
    <3>4. IncidentOf(i) \in DOMAIN incidentRow' \/ i \in unsaved'.incidents
      BY <3>2, <3>3 DEF UpsertIncident
    <3> QED BY <2>1, <3>1, <3>4 DEF IncidentStored, IncidentOf
  <2> QED BY <2>1, <2>2 DEF IncidentStored, IncidentOf
<1> QED BY <1>3, <1>4, <1>5, SavedStep

\* Only a head that is marked as stored is pushed.
LEMMA PushedStep ==
    PipelineTypes /\ PushedAreStored /\ StoredHeads /\ [Next]_vars => PushedAreStored'
<1> SUFFICES ASSUME PipelineTypes, PushedAreStored, StoredHeads, [Next]_vars
             PROVE  PushedAreStored'
  OBVIOUS
<1>1. /\ \A f : FailureStored(f) => FailureStored(f)'
      /\ \A i : IncidentStored(i) => IncidentStored(i)'
  BY StoredStays
<1>2. ASSUME NEW m, log' = Append(log, m),
             m.kind = "failure_highlight" => FailureStored(m.body),
             m.kind = "incident" => IncidentStored(m.body)
      PROVE  PushedAreStored'
  <2>1. /\ \A i \in DOMAIN log : log'[i] = log[i]
        /\ log'[Len(log) + 1] = m
        /\ \A k : Kind(k)' = Kind(k) \cup (IF m.kind = k THEN {Len(log) + 1} ELSE {})
        /\ \A k : Kind(k) \subseteq DOMAIN log
    BY <1>2, MessageEffect DEF PipelineTypes, Stores
  <2>2. ASSUME NEW i \in Kind("failure_highlight")' PROVE FailureStored(log[i].body)'
    <3>1. PICK f : f = log'[i].body
      OBVIOUS
    <3>2. FailureStored(f)
      BY <1>2, <2>1, <2>2, <3>1 DEF PushedAreStored
    <3>3. FailureStored(f)'
      BY <3>2, <1>1
    <3> QED BY <3>1, <3>3 DEF FailureStored
  <2>3. ASSUME NEW i \in Kind("incident")' PROVE IncidentStored(log[i].body)'
    <3>1. PICK n : n = log'[i].body
      OBVIOUS
    <3>2. IncidentStored(n)
      BY <1>2, <2>1, <2>3, <3>1 DEF PushedAreStored
    <3>3. IncidentStored(n)'
      BY <3>2, <1>1
    <3> QED BY <3>1, <3>3 DEF IncidentStored, IncidentOf
  <2> QED BY <2>2, <2>3 DEF PushedAreStored
<1>3. CASE UNCHANGED log
  <2>1. ASSUME NEW i \in Kind("failure_highlight")' PROVE FailureStored(log[i].body)'
    <3>1. PICK f : f = log'[i].body
      OBVIOUS
    <3>2. FailureStored(f)
      BY <1>3, <2>1, <3>1 DEF PushedAreStored, Kind
    <3>3. FailureStored(f)'
      BY <3>2, <1>1
    <3> QED BY <3>1, <3>3 DEF FailureStored
  <2>2. ASSUME NEW i \in Kind("incident")' PROVE IncidentStored(log[i].body)'
    <3>1. PICK n : n = log'[i].body
      OBVIOUS
    <3>2. IncidentStored(n)
      BY <1>3, <2>2, <3>1 DEF PushedAreStored, Kind
    <3>3. IncidentStored(n)'
      BY <3>2, <1>1
    <3> QED BY <3>1, <3>3 DEF IncidentStored, IncidentOf
  <2> QED BY <2>1, <2>2 DEF PushedAreStored
<1>4. ASSUME NEW g \in Sources, PublishEvent(g) PROVE PushedAreStored'
  <2>1. PICK m : m = [kind |-> "log_event", body |-> event[g], by |-> g]
    OBVIOUS
  <2>2. m.kind = "log_event" /\ log' = Append(log, m)
    BY <2>1, <1>4 DEF PublishEvent
  <2> QED BY <2>2, <1>2
<1>5. ASSUME NEW g \in Sources, PublishFailure(g) PROVE PushedAreStored'
  <2>1. PICK m : m = [kind |-> "failure_highlight", body |-> Head(fresh[g]), by |-> g]
    OBVIOUS
  <2>2. PICK f : f = Head(fresh[g])
    OBVIOUS
  <2>3. FailureStored(f)
    BY <1>5, <2>2 DEF PublishFailure, StoredHeads
  <2>4. m.kind = "failure_highlight" /\ m.body = f /\ log' = Append(log, m)
    BY <2>1, <2>2, <1>5 DEF PublishFailure
  <2> QED BY <2>3, <2>4, <1>2
<1>6. ASSUME NEW g \in Sources, PublishIncident(g) PROVE PushedAreStored'
  <2>1. PICK m : m = [kind |-> "incident", body |-> Head(incidents[g]), by |-> g]
    OBVIOUS
  <2>2. PICK i : i = Head(incidents[g])
    OBVIOUS
  <2>3. IncidentStored(i)
    BY <1>6, <2>2 DEF PublishIncident, StoredHeads
  <2>4. m.kind = "incident" /\ m.body = i /\ log' = Append(log, m)
    BY <2>1, <2>2, <1>6 DEF PublishIncident
  <2> QED BY <2>3, <2>4, <1>2
<1> QED BY <1>3, <1>4, <1>5, <1>6, LogStep DEF Next, RecordEvent, vars

\* A dashboard that is told of a failure or an incident and asks the REST API for
\* its run finds it there, unless the store failed to write just that.
THEOREM PushedAfterStored == Spec => []StoredBeforePushed
<1>1. Init => PushedAreStored /\ StoredHeads
  <2>1. Init => Kind("failure_highlight") = {} /\ Kind("incident") = {}
    BY EmptySequence DEF Init, Kind
  <2>2. Init => \A g \in Sources : ~saved[g]
    BY DEF Init
  <2> QED BY <2>1, <2>2 DEF PushedAreStored, StoredHeads
<1>2. /\ PipelineTypes /\ PushedAreStored /\ StoredHeads /\ PipelineTypes' /\ [Next]_vars
      => PushedAreStored' /\ StoredHeads'
  BY PushedStep, HeadsStep
<1>3. PushedAreStored => StoredBeforePushed
  BY DEF PushedAreStored, StoredBeforePushed, FailureStored, IncidentStored
<1> QED BY <1>1, <1>2, <1>3, TypesInvariant, PTL DEF Spec

\* The feed shows the event a failure is dated to before it shows the failure.
THEOREM EventsComeFirst == Spec => []CauseBeforeEffect
<1>1. Init => CauseBeforeEffect
  <2>1. Init => Kind("failure_highlight") = {}
    BY EmptySequence DEF Init, Kind
  <2> QED BY <2>1 DEF CauseBeforeEffect
<1>2. PipelineTypes /\ CauseBeforeEffect /\ [Next]_vars => CauseBeforeEffect'
  <2> SUFFICES ASSUME PipelineTypes, CauseBeforeEffect, [Next]_vars PROVE CauseBeforeEffect'
    OBVIOUS
  <2>1. /\ \A k : Kind(k) \subseteq Kind(k)'
        /\ \A k : \A i \in Kind(k) : log'[i] = log[i]
    BY ShownStays
  <2>2. ASSUME NEW i \in Kind("failure_highlight")', i \in Kind("failure_highlight")
        PROVE  \E j \in Kind("log_event")' : j < i /\ DatedTo(log'[i].body, log'[j].body)
    <3>1. PICK j \in Kind("log_event") : j < i /\ DatedTo(log[i].body, log[j].body)
      BY <2>2 DEF CauseBeforeEffect
    <3>2. log'[i] = log[i] /\ log'[j] = log[j] /\ j \in Kind("log_event")'
      BY <2>1, <2>2
    <3> QED BY <3>1, <3>2
  <2>3. ASSUME NEW g \in Sources, PublishFailure(g), NEW i \in Kind("failure_highlight")'
        PROVE  \E j \in Kind("log_event")' : j < i /\ DatedTo(log'[i].body, log'[j].body)
    <3>1. PICK f : f = Head(fresh[g])
      OBVIOUS
    <3>2. PICK m : m = [kind |-> "failure_highlight", body |-> f, by |-> g]
      OBVIOUS
    <3>3. log' = Append(log, m) /\ fresh[g] # <<>>
      BY <2>3, <3>1, <3>2 DEF PublishFailure
    <3>4. /\ \A x \in DOMAIN log : x < Len(log) + 1
          /\ log'[Len(log) + 1] = m
          /\ Kind("failure_highlight")' = Kind("failure_highlight") \cup {Len(log) + 1}
          /\ Kind("log_event") \subseteq DOMAIN log
      <4>1. m.kind = "failure_highlight"
        BY <3>2
      <4> QED BY <3>3, <4>1, MessageEffect DEF PipelineTypes, Stores
    <3>5. Shown(f)
      <4>1. Sequence(fresh[g])
        BY DEF PipelineTypes, Held
      <4>2. f \in Range(fresh[g])
        BY <3>1, <3>3, <4>1, HeadAndTail
      <4> QED BY <4>2 DEF PipelineTypes, Caused
    <3>6. PICK j \in Kind("log_event") : DatedTo(f, log[j].body)
      BY <3>5 DEF Shown
    <3>7. j \in Kind("log_event")' /\ log'[j] = log[j] /\ j < Len(log) + 1
      BY <2>1, <3>4
    <3>8. CASE i = Len(log) + 1
      BY <3>2, <3>4, <3>6, <3>7, <3>8
    <3>9. CASE i \in Kind("failure_highlight")
      BY <2>2, <2>3, <3>9
    <3> QED BY <2>3, <3>4, <3>8, <3>9
  <2>4. ASSUME NEW i \in Kind("failure_highlight")', i \notin Kind("failure_highlight")
        PROVE  \E g \in Sources : PublishFailure(g)
    <3>1. ASSUME NEW g \in Sources, PublishEvent(g) \/ PublishIncident(g) PROVE FALSE
      <4>1. PICK m : log' = Append(log, m) /\ m.kind \in {"log_event", "incident"}
        BY <3>1 DEF PublishEvent, PublishIncident
      <4>2. \A k : Kind(k)' = Kind(k) \cup (IF m.kind = k THEN {Len(log) + 1} ELSE {})
        BY <4>1, MessageEffect DEF PipelineTypes, Stores
      <4>3. m.kind # "failure_highlight"
        BY <4>1
      <4> QED BY <4>2, <4>3, <2>4
    <3>2. ~UNCHANGED log
      BY <2>4 DEF Kind
    <3> QED BY <3>1, <3>2, LogStep DEF Next, RecordEvent, vars
  <2> QED BY <2>2, <2>3, <2>4 DEF CauseBeforeEffect
<1> QED BY <1>1, <1>2, TypesInvariant, PTL DEF Spec

-----------------------------------------------------------------------------
(* An incident that one goroutine feeds *)

\* What a step does to the snapshots in flight and to the messages that show them.
Quiet == /\ UNCHANGED <<incidents, returned, seq>>
         /\ Kind("incident")' = Kind("incident")
         /\ \A i \in Kind("incident") : log'[i] = log[i]

Pushes(g, l) ==
    /\ incidents[g] # <<>> /\ l = Len(log) + 1
    /\ incidents' = [incidents EXCEPT ![g] = Tail(@)] /\ UNCHANGED <<returned, seq>>
    /\ Kind("incident")' = Kind("incident") \cup {l}
    /\ \A i \in Kind("incident") : log'[i] = log[i] /\ i < l
    /\ log'[l].body = Head(incidents[g]) /\ log'[l].by = g

\* One of three things: a snapshot is returned, one is pushed, or nothing.
LEMMA IncidentStep ==
    ASSUME PipelineTypes, [Next]_vars
    PROVE  \/ Quiet
           \/ \E g \in Sources : Flag(g) /\ UNCHANGED log
           \/ \E g \in Sources, l \in Nat : PublishIncident(g) /\ Pushes(g, l)
<1>1. ASSUME NEW g \in Sources, PublishIncident(g)
      PROVE  \E l \in Nat : Pushes(g, l)
  <2>1. PICK i : i = Head(incidents[g])
    OBVIOUS
  <2>2. PICK m : m = [kind |-> "incident", body |-> i, by |-> g]
    OBVIOUS
  <2>3. PICK l : l = Len(log) + 1
    OBVIOUS
  <2>4. log' = Append(log, m) /\ m.kind = "incident"
    BY <1>1, <2>1, <2>2 DEF PublishIncident
  <2>5. /\ l \in Nat
        /\ \A x \in DOMAIN log : log'[x] = log[x] /\ x < l
        /\ log'[l] = m
        /\ \A k : Kind(k)' = Kind(k) \cup (IF m.kind = k THEN {l} ELSE {})
        /\ \A k : Kind(k) \subseteq DOMAIN log
    BY <2>3, <2>4, MessageEffect DEF PipelineTypes, Stores
  <2>6. Kind("incident")' = Kind("incident") \cup {l}
    BY <2>4, <2>5
  <2>7. log'[l].body = Head(incidents[g]) /\ log'[l].by = g
    BY <2>1, <2>2, <2>5
  <2>8. \A x \in Kind("incident") : log'[x] = log[x] /\ x < l
    BY <2>5
  <2>9. /\ incidents[g] # <<>>
        /\ incidents' = [incidents EXCEPT ![g] = Tail(@)] /\ UNCHANGED <<returned, seq>>
    BY <1>1 DEF PublishIncident, correlatorVars
  <2> QED BY <2>3, <2>5, <2>6, <2>7, <2>8, <2>9 DEF Pushes
<1>2. ASSUME NEW g \in Sources, PublishEvent(g) \/ PublishFailure(g) PROVE Quiet
  <2>1. PICK m : log' = Append(log, m) /\ m.kind \in {"log_event", "failure_highlight"}
    BY <1>2 DEF PublishEvent, PublishFailure
  <2>2. /\ \A x \in DOMAIN log : log'[x] = log[x]
        /\ \A k : Kind(k)' = Kind(k) \cup (IF m.kind = k THEN {Len(log) + 1} ELSE {})
        /\ \A k : Kind(k) \subseteq DOMAIN log
    BY <2>1, MessageEffect DEF PipelineTypes, Stores
  <2>3. m.kind # "incident"
    BY <2>1
  <2>4. UNCHANGED <<incidents, returned, seq>>
    BY <1>2 DEF PublishEvent, PublishFailure, correlatorVars
  <2> QED BY <2>2, <2>3, <2>4 DEF Quiet
<1>3. ASSUME UNCHANGED <<incidents, returned, seq, log>> PROVE Quiet
  BY <1>3 DEF Quiet, Kind
<1>4. ASSUME NEW g \in Sources,
             EvaluateWindow(g) \/ Skip(g) \/ Unlock(g) \/ RecordFailure(g) \/ FailuresDone(g)
                 \/ SaveIncident(g) \/ Return(g)
      PROVE  Quiet
  <2>1. UNCHANGED <<incidents, returned, seq, log>>
    BY <1>4 DEF EvaluateWindow, Skip, Take, Unlock, RecordFailure, FailuresDone, SaveIncident, Return,
                correlatorVars
  <2> QED BY <2>1, <1>3
<1>5. ASSUME NEW g \in Sources, NEW e \in Events, RecordEvent(g, e) PROVE Quiet
  BY <1>3, <1>5 DEF RecordEvent, correlatorVars
<1>6. CASE UNCHANGED vars
  BY <1>3, <1>6 DEF vars, correlatorVars
<1>7. ASSUME NEW g \in Sources, Flag(g) PROVE UNCHANGED log
  BY <1>7 DEF Flag, Take
<1> QED BY <1>1, <1>2, <1>4, <1>5, <1>6, <1>7 DEF Next, Step

\* What Flag(g) adds, with the types of what is there.
LEMMA FlagAdds ==
    ASSUME PipelineTypes, NEW g \in Sources, Flag(g)
    PROVE  \E n \in Nat :
             /\ DOMAIN returned = 1..n /\ DOMAIN returned' = 1..(n + 1)
             /\ \A i \in 1..n : i < n + 1
             /\ \A i \in DOMAIN returned : IncidentOf(i)' = IncidentOf(i)
             /\ IncidentOf(n + 1)' \in 1..seq' /\ 1..seq \subseteq 1..seq'
             /\ \A k \in 1..seq' : k \in 1..seq \/ IncidentOf(n + 1)' = k
             /\ \A h \in Sources : Range(incidents'[h]) = Range(incidents[h]) \cup (IF h = g THEN {n + 1} ELSE {})
             /\ \A h \in Sources \ {g} : incidents'[h] = incidents[h]
             /\ \E p \in Nat : /\ DOMAIN incidents[g] = 1..p /\ DOMAIN incidents'[g] = 1..(p + 1)
                               /\ \A i \in 1..p : incidents'[g][i] = incidents[g][i]
                               /\ incidents'[g][p + 1] = n + 1
<1>1. PICK n : n = Len(returned)
  OBVIOUS
<1>2. /\ Numbered' /\ n \in Nat /\ DOMAIN returned = 1..n /\ DOMAIN returned' = 1..(n + 1)
      /\ \A i \in DOMAIN returned : IncidentOf(i)' = IncidentOf(i)
      /\ 1..seq \subseteq 1..seq'
      /\ \A k \in 1..seq' : k \in 1..seq \/ returned'[n + 1].inc.id = k
      /\ incidents' = [incidents EXCEPT ![g] = Append(@, n + 1)]
  BY <1>1, FlagEffect
<1>3. PICK more : more = Append(incidents[g], n + 1)
  OBVIOUS
<1>4. PICK S : S = 1..Len(returned)
  OBVIOUS
<1>5. Sequence(incidents[g])
  BY <1>4, SequenceOf DEF PipelineTypes, Held
<1>6. /\ Len(incidents[g]) \in Nat /\ DOMAIN incidents[g] = 1..Len(incidents[g])
      /\ DOMAIN more = 1..(Len(incidents[g]) + 1)
      /\ \A i \in 1..Len(incidents[g]) : more[i] = incidents[g][i]
      /\ more[Len(incidents[g]) + 1] = n + 1
      /\ Range(more) = Range(incidents[g]) \cup {n + 1}
  BY <1>3, <1>5, AppendOne
<1>7. \A h \in Sources : incidents'[h] = IF h = g THEN more ELSE incidents[h]
  BY <1>2, <1>3 DEF PipelineTypes, Held
<1>8. IncidentOf(n + 1)' \in 1..seq' /\ \A k \in 1..seq' : k \in 1..seq \/ IncidentOf(n + 1)' = k
  <2>1. n + 1 \in DOMAIN returned'
    BY <1>2
  <2>2. \A i \in DOMAIN returned' : returned'[i].inc.id \in 1..seq'
    BY <1>2 DEF Numbered, IncidentOf
  <2> QED BY <1>2, <2>1, <2>2 DEF IncidentOf
<1>9. \A i \in 1..n : i < n + 1
  BY <1>2
<1>10. \E p \in Nat : /\ DOMAIN incidents[g] = 1..p /\ DOMAIN incidents'[g] = 1..(p + 1)
                      /\ \A i \in 1..p : incidents'[g][i] = incidents[g][i]
                      /\ incidents'[g][p + 1] = n + 1
  BY <1>6, <1>7
<1>11. /\ \A h \in Sources : Range(incidents'[h]) = Range(incidents[h]) \cup (IF h = g THEN {n + 1} ELSE {})
       /\ \A h \in Sources \ {g} : incidents'[h] = incidents[h]
  BY <1>6, <1>7
<1> QED BY <1>2, <1>8, <1>9, <1>10, <1>11

\* Who got a snapshot never changes.
LEMMA GotStays ==
    ASSUME PipelineTypes, [Next]_vars, NEW i \in DOMAIN returned, NEW h \in Sources
    PROVE  Got(i, h)' <=> Got(i, h)
<1>1. CASE Quiet
  BY <1>1 DEF Quiet, Got, PushedBy
<1>2. ASSUME NEW g \in Sources, Flag(g), UNCHANGED log PROVE Got(i, h)' <=> Got(i, h)
  <2>1. PICK n \in Nat :
          /\ DOMAIN returned = 1..n /\ \A x \in 1..n : x < n + 1
          /\ \A x \in Sources : Range(incidents'[x]) = Range(incidents[x]) \cup (IF x = g THEN {n + 1} ELSE {})
    BY <1>2, FlagAdds
  <2>2. i # n + 1
    BY <2>1
  <2> QED BY <1>2, <2>1, <2>2 DEF Got, PushedBy, Kind
<1>3. ASSUME NEW g \in Sources, NEW l \in Nat, Pushes(g, l) PROVE Got(i, h)' <=> Got(i, h)
  <2>1. PICK S : S = 1..Len(returned)
    OBVIOUS
  <2>2. Sequence(incidents[g])
    BY <2>1, SequenceOf DEF PipelineTypes, Held
  <2>3. Range(incidents[g]) = Range(Tail(incidents[g])) \cup {Head(incidents[g])}
    BY <1>3, <2>2, HeadAndTail DEF Pushes
  <2>4. \A x \in Sources : incidents'[x] = IF x = g THEN Tail(incidents[g]) ELSE incidents[x]
    BY <1>3 DEF Pushes, PipelineTypes, Held
  <2>5. PushedBy(i, h)' <=> PushedBy(i, h) \/ (h = g /\ i = Head(incidents[g]))
    BY <1>3 DEF Pushes, PushedBy
  <2> QED BY <2>3, <2>4, <2>5 DEF Got
<1> QED BY <1>1, <1>2, <1>3, IncidentStep

\* The head is the least of the snapshots a goroutine has to push.
LEMMA HeadIsLeast ==
    ASSUME PipelineTypes, InOrder, NEW g \in Sources, incidents[g] # <<>>
    PROVE  \A m \in Range(Tail(incidents[g])) : Head(incidents[g]) < m
<1>1. PICK S : S = 1..Len(returned)
  OBVIOUS
<1>2. Sequence(incidents[g])
  BY <1>1, SequenceOf DEF PipelineTypes, Held
<1>3. PICK p \in Nat \ {0} :
          /\ DOMAIN incidents[g] = 1..p /\ DOMAIN Tail(incidents[g]) = 1..(p - 1)
          /\ \A i \in 1..(p - 1) : Tail(incidents[g])[i] = incidents[g][i + 1]
          /\ Head(incidents[g]) = incidents[g][1]
  BY <1>2, HeadAndTail
<1>4. \A i \in 1..(p - 1) : 1 \in 1..p /\ i + 1 \in 1..p /\ 1 < i + 1
  BY <1>3
<1>5. \A i \in 1..(p - 1) : Head(incidents[g]) < Tail(incidents[g])[i]
  BY <1>3, <1>4 DEF InOrder
<1> QED BY <1>3, <1>5 DEF Range

\* The order of a goroutine's snapshots, in flight and on the feed, is kept.
LEMMA InOrderStep == PipelineTypes /\ InOrder /\ [Next]_vars => InOrder'
<1> SUFFICES ASSUME PipelineTypes, InOrder, [Next]_vars PROVE InOrder'
  OBVIOUS
<1>1. CASE Quiet
  <2>1. \A i \in DOMAIN returned : \A h \in Sources : Got(i, h)' <=> Got(i, h)
    BY GotStays
  <2>2. \A i \in DOMAIN returned' : \E g \in Sources : Got(i, g)'
    BY <1>1, <2>1 DEF Quiet, InOrder
  <2> QED BY <1>1, <2>2 DEF Quiet, InOrder
<1>2. ASSUME NEW g \in Sources, Flag(g), UNCHANGED log PROVE InOrder'
  <2>1. PICK n \in Nat :
          /\ DOMAIN returned = 1..n /\ DOMAIN returned' = 1..(n + 1)
          /\ \A i \in 1..n : i < n + 1
          /\ \A h \in Sources : Range(incidents'[h]) = Range(incidents[h]) \cup (IF h = g THEN {n + 1} ELSE {})
          /\ \A h \in Sources \ {g} : incidents'[h] = incidents[h]
          /\ \E p \in Nat : /\ DOMAIN incidents[g] = 1..p /\ DOMAIN incidents'[g] = 1..(p + 1)
                            /\ \A i \in 1..p : incidents'[g][i] = incidents[g][i]
                            /\ incidents'[g][p + 1] = n + 1
    BY <1>2, FlagAdds
  <2>2. PICK p \in Nat :
          /\ DOMAIN incidents[g] = 1..p /\ DOMAIN incidents'[g] = 1..(p + 1)
          /\ \A i \in 1..p : incidents'[g][i] = incidents[g][i]
          /\ incidents'[g][p + 1] = n + 1
    BY <2>1
  <2>3. Range(incidents[g]) \subseteq 1..n
    <3>1. PICK S : S = 1..Len(returned) /\ S = DOMAIN returned
      BY AppendOne DEF PipelineTypes, Numbered
    <3>2. incidents[g] \in Seq(S)
      BY <3>1 DEF PipelineTypes, Held
    <3> QED BY <3>1, <3>2, <2>1, SequenceOf
  <2>4. \A i \in 1..p : incidents[g][i] < n + 1
    BY <2>1, <2>2, <2>3 DEF Range
  <2>5. ASSUME NEW i \in 1..(p + 1), NEW j \in 1..(p + 1), i < j
        PROVE  incidents'[g][i] < incidents'[g][j]
    <3>1. i \in 1..p /\ (j \in 1..p \/ j = p + 1)
      BY <2>5
    <3> QED BY <3>1, <2>2, <2>4, <2>5 DEF InOrder
  <2>6. \A h \in Sources : \A i, j \in DOMAIN incidents'[h] : i < j => incidents'[h][i] < incidents'[h][j]
    BY <2>1, <2>2, <2>5 DEF InOrder
  <2>7. Kind("incident")' = Kind("incident") /\ log' = log
    BY <1>2 DEF Kind
  <2>8. \A i \in Kind("incident") : log[i].body < n + 1 /\ log[i].by \in Sources
    BY <2>1 DEF PipelineTypes, Stores, InOrder
  <2>9. \A i \in Kind("incident") : \A m \in Range(incidents'[log[i].by]) : log[i].body < m
    <3> TAKE i \in Kind("incident")
    <3> TAKE m \in Range(incidents'[log[i].by])
    <3>1. PICK h \in Sources : h = log[i].by
      BY <2>8
    <3>2. Range(incidents'[h]) = Range(incidents[h]) \cup (IF h = g THEN {n + 1} ELSE {})
      BY <2>1, <3>1
    <3>3. m \in Range(incidents[log[i].by]) \/ m = n + 1
      BY ONLY <3>1, <3>2, m \in Range(incidents'[log[i].by])
    <3> QED BY <3>3, <2>8 DEF InOrder
  <2>10. ASSUME NEW i \in DOMAIN returned' PROVE \E h \in Sources : Got(i, h)'
    <3>1. CASE i \in DOMAIN returned
      <4>1. PICK h \in Sources : Got(i, h)
        BY <3>1 DEF InOrder
      <4> QED BY <3>1, <4>1, GotStays
    <3>2. CASE i = n + 1
      <4>1. i \in Range(incidents'[g])
        BY <3>2, <2>1
      <4> QED BY <4>1 DEF Got
    <3>3. i \in DOMAIN returned \/ i = n + 1
      BY <2>1, <2>10
    <3> QED BY <3>1, <3>2, <3>3
  <2> QED BY <2>6, <2>7, <2>8, <2>9, <2>10 DEF InOrder
<1>3. ASSUME NEW g \in Sources, NEW l \in Nat, Pushes(g, l) PROVE InOrder'
  <2>1. PICK S : S = 1..Len(returned)
    OBVIOUS
  <2>2. Sequence(incidents[g]) /\ incidents[g] # <<>>
    BY <1>3, <2>1, SequenceOf DEF PipelineTypes, Held, Pushes
  <2>3. PICK p \in Nat \ {0} :
          /\ DOMAIN incidents[g] = 1..p /\ DOMAIN Tail(incidents[g]) = 1..(p - 1)
          /\ \A i \in 1..(p - 1) : Tail(incidents[g])[i] = incidents[g][i + 1]
          /\ Range(incidents[g]) = Range(Tail(incidents[g])) \cup {Head(incidents[g])}
    BY <2>2, HeadAndTail
  <2>4. \A h \in Sources : incidents'[h] = IF h = g THEN Tail(incidents[g]) ELSE incidents[h]
    BY <1>3 DEF Pushes, PipelineTypes, Held
  <2>5. ASSUME NEW i \in 1..(p - 1), NEW j \in 1..(p - 1), i < j
        PROVE  Tail(incidents[g])[i] < Tail(incidents[g])[j]
    <3>1. i + 1 \in 1..p /\ j + 1 \in 1..p /\ i + 1 < j + 1
      BY <2>3, <2>5
    <3> QED BY <3>1, <2>3, <2>5 DEF InOrder
  <2>6. \A h \in Sources : \A i, j \in DOMAIN incidents'[h] : i < j => incidents'[h][i] < incidents'[h][j]
    BY <2>3, <2>4, <2>5 DEF InOrder
  <2>7. /\ Kind("incident")' = Kind("incident") \cup {l}
        /\ \A i \in Kind("incident") : log'[i] = log[i] /\ i < l /\ i \in Nat
        /\ log'[l].body = Head(incidents[g]) /\ log'[l].by = g
    <3>1. DOMAIN log = 1..Len(log)
      BY AppendOne DEF PipelineTypes, Stores
    <3> QED BY <1>3, <3>1 DEF Pushes, Kind
  <2>8. Head(incidents[g]) \in Range(incidents[g])
    BY <2>2, HeadIsSnapshot
  <2>9. ASSUME NEW i \in Kind("incident")', NEW j \in Kind("incident")',
               i < j, log'[i].by = log'[j].by
        PROVE  log'[i].body < log'[j].body
    <3>1. CASE j = l
      <4>1. i \in Kind("incident") /\ log[i].by = g
        BY <3>1, <2>7, <2>9
      <4> QED BY <3>1, <4>1, <2>7, <2>8 DEF InOrder
    <3>2. CASE j \in Kind("incident")
      <4>1. i \in Kind("incident")
        BY <3>2, <2>7, <2>9
      <4> QED BY <3>2, <4>1, <2>7, <2>9 DEF InOrder
    <3> QED BY <3>1, <3>2, <2>7, <2>9
  <2>10. ASSUME NEW i \in Kind("incident")', NEW m \in Range(incidents'[log'[i].by])
         PROVE  log'[i].body < m /\ log'[i].by \in Sources
    <3>1. CASE i = l
      <4>1. m \in Range(Tail(incidents[g]))
        BY <3>1, <2>4, <2>7, <2>10
      <4> QED BY <3>1, <4>1, <2>2, <2>7, HeadIsLeast
    <3>2. CASE i \in Kind("incident")
      <4>1. log[i].by \in Sources /\ log'[i] = log[i]
        BY <3>2, <2>7 DEF InOrder
      <4>2. m \in Range(incidents[log[i].by])
        BY <4>1, <2>3, <2>4, <2>10
      <4> QED BY <3>2, <4>1, <4>2 DEF InOrder
    <3> QED BY <3>1, <3>2, <2>7, <2>10
  <2>11. \A i \in Kind("incident")' : log'[i].by \in Sources
    BY <2>7 DEF InOrder
  <2>12. ASSUME NEW i \in DOMAIN returned' PROVE \E h \in Sources : Got(i, h)'
    <3>1. i \in DOMAIN returned
      BY <1>3, <2>12 DEF Pushes
    <3>2. PICK h \in Sources : Got(i, h)
      BY <3>1 DEF InOrder
    <3> QED BY <3>1, <3>2, GotStays
  <2> QED BY <2>6, <2>9, <2>10, <2>11, <2>12 DEF InOrder
<1> QED BY <1>1, <1>2, <1>3, IncidentStep

\* What an incident has of snapshots and messages only grows at the end.
LEMMA NewestStep == PipelineTypes /\ HaveNewest /\ [Next]_vars => HaveNewest'
<1> SUFFICES ASSUME PipelineTypes, HaveNewest, [Next]_vars PROVE HaveNewest'
  OBVIOUS
<1>0. /\ \A i \in Kind("incident") : log[i].body \in DOMAIN returned
      /\ \A i \in DOMAIN returned : IncidentOf(i) \in 1..seq
  BY DEF PipelineTypes, Stores, Numbered
<1>1. CASE Quiet
  <2>1. \A n : SnapshotsOf(n)' = SnapshotsOf(n)
    BY <1>1 DEF Quiet, SnapshotsOf, IncidentOf
  <2>2. \A n : MessagesOf(n)' = MessagesOf(n)
    BY <1>1 DEF Quiet, MessagesOf, IncidentOf
  <2> QED BY <1>1, <2>1, <2>2 DEF Quiet, HaveNewest
<1>2. ASSUME NEW g \in Sources, Flag(g), UNCHANGED log PROVE HaveNewest'
  <2>1. PICK n \in Nat :
          /\ DOMAIN returned = 1..n /\ DOMAIN returned' = 1..(n + 1)
          /\ \A i \in 1..n : i < n + 1
          /\ \A i \in DOMAIN returned : IncidentOf(i)' = IncidentOf(i)
          /\ \A k \in 1..seq' : k \in 1..seq \/ IncidentOf(n + 1)' = k
    BY <1>2, FlagAdds
  <2>2. \A i \in 1..(n + 1) : i \in 1..n \/ i = n + 1
    BY <2>1
  <2>3. n + 1 \in 1..(n + 1) /\ n + 1 <= n + 1
    BY <2>1
  <2>4. ASSUME NEW k \in 1..seq'
        PROVE  \E i \in SnapshotsOf(k)' : \A j \in SnapshotsOf(k)' : j <= i
    <3>1. CASE IncidentOf(n + 1)' = k
      <4>1. n + 1 \in SnapshotsOf(k)'
        BY <3>1, <2>1, <2>3 DEF SnapshotsOf
      <4>2. \A j \in SnapshotsOf(k)' : j <= n + 1
        <5>1. \A j \in SnapshotsOf(k)' : j \in 1..(n + 1)
          BY <2>1 DEF SnapshotsOf
        <5> QED BY <5>1, <2>1
      <4> QED BY <4>1, <4>2
    <3>2. CASE IncidentOf(n + 1)' # k
      <4>1. SnapshotsOf(k)' = {i \in 1..(n + 1) : IncidentOf(i)' = k}
        BY <2>1 DEF SnapshotsOf
      <4>2. SnapshotsOf(k) = {i \in 1..n : IncidentOf(i) = k}
        BY <2>1 DEF SnapshotsOf
      <4>3. \A i \in 1..n : i \in 1..(n + 1)
        BY <2>1
      <4>4. SnapshotsOf(k)' = SnapshotsOf(k)
        BY <3>2, <4>1, <4>2, <4>3, <2>1, <2>2
      <4>5. k \in 1..seq
        BY <3>2, <2>1, <2>4
      <4> QED BY <4>4, <4>5 DEF HaveNewest
    <3> QED BY <3>1, <3>2
  <2>5. \A k : MessagesOf(k)' = MessagesOf(k)
    <3>1. Kind("incident")' = Kind("incident") /\ log' = log
      BY <1>2 DEF Kind
    <3>2. \A i \in Kind("incident") : IncidentOf(log[i].body)' = IncidentOf(log[i].body)
      <4> TAKE i \in Kind("incident")
      <4>1. PICK b \in DOMAIN returned : b = log[i].body
        BY <1>0
      <4>2. IncidentOf(b)' = IncidentOf(b)
        BY <2>1
      <4> QED BY <4>1, <4>2, <3>1 DEF IncidentOf
    <3> QED BY <3>1, <3>2 DEF MessagesOf
  <2>6. ASSUME NEW k \in 1..seq'
        PROVE  MessagesOf(k)' = {} \/ \E i \in MessagesOf(k)' : \A j \in MessagesOf(k)' : j <= i
    <3>1. CASE k \in 1..seq
      BY <3>1, <2>5 DEF HaveNewest
    <3>2. CASE k \notin 1..seq
      <4>1. MessagesOf(k) = {}
        BY <3>2, <1>0 DEF MessagesOf
      <4> QED BY <4>1, <2>5
    <3> QED BY <3>1, <3>2
  <2> QED BY <2>4, <2>6 DEF HaveNewest
<1>3. ASSUME NEW g \in Sources, NEW l \in Nat, Pushes(g, l) PROVE HaveNewest'
  <2>1. \A n : SnapshotsOf(n)' = SnapshotsOf(n)
    BY <1>3 DEF Pushes, SnapshotsOf, IncidentOf
  <2>2. /\ Kind("incident")' = Kind("incident") \cup {l}
        /\ \A i \in Kind("incident") : log'[i] = log[i] /\ i <= l
    <3>1. DOMAIN log = 1..Len(log)
      BY AppendOne DEF PipelineTypes, Stores
    <3> QED BY <1>3, <3>1 DEF Pushes, Kind
  <2>3. returned' = returned /\ seq' = seq
    BY <1>3 DEF Pushes
  <2>4. ASSUME NEW n \in 1..seq
        PROVE  MessagesOf(n)' = {} \/ \E i \in MessagesOf(n)' : \A j \in MessagesOf(n)' : j <= i
    <3>1. CASE l \in MessagesOf(n)'
      <4>1. \A j \in MessagesOf(n)' : j <= l
        BY <2>2 DEF MessagesOf
      <4> QED BY <3>1, <4>1
    <3>2. CASE l \notin MessagesOf(n)'
      <4>1. MessagesOf(n)' = MessagesOf(n)
        <5>1. \A i \in Kind("incident") : (i \in MessagesOf(n)' <=> i \in MessagesOf(n))
          BY <2>2, <2>3 DEF MessagesOf, IncidentOf
        <5>2. MessagesOf(n)' \subseteq Kind("incident")' /\ MessagesOf(n) \subseteq Kind("incident")
          BY DEF MessagesOf
        <5> QED BY <5>1, <5>2, <3>2, <2>2
      <4> QED BY <4>1 DEF HaveNewest
    <3> QED BY <3>1, <3>2
  <2> QED BY <2>1, <2>3, <2>4 DEF HaveNewest
<1> QED BY <1>1, <1>2, <1>3, IncidentStep

\* A save is tried by SaveIncident only, of the head.
LEMMA TriedStep ==
    ASSUME PipelineTypes, [Next]_vars, NEW g \in Sources, NEW i, Tried(i, g)'
    PROVE  Tried(i, g) \/ (SaveIncident(g) /\ incidents[g] # <<>> /\ i = Head(incidents[g]))
<1>1. CASE PushedBy(i, g)'
  <2>1. CASE Quiet
    BY <1>1, <2>1 DEF Quiet, PushedBy, Tried
  <2>2. ASSUME UNCHANGED log PROVE Tried(i, g)
    BY <1>1, <2>2 DEF PushedBy, Tried, Kind
  <2>3. ASSUME NEW h \in Sources, NEW l \in Nat, PublishIncident(h), Pushes(h, l)
        PROVE  Tried(i, g)
    <3>1. PushedBy(i, g) \/ (h = g /\ i = Head(incidents[g]))
      BY <1>1, <2>3 DEF Pushes, PushedBy
    <3> QED BY <3>1, <2>3 DEF Tried, PublishIncident
  <2> QED BY <2>1, <2>2, <2>3, IncidentStep
<1>2. CASE saved'[g] /\ pc'[g] = "incidents" /\ i = Head(incidents'[g])
  <2>1. CASE saved[g] /\ pc'[g] = pc[g] /\ incidents'[g] = incidents[g]
    BY <1>2, <2>1 DEF Tried
  <2>2. CASE RecordFailure(g)
    BY <1>2, <2>2 DEF RecordFailure
  <2>3. CASE SaveIncident(g)
    BY <1>2, <2>3 DEF SaveIncident
  <2> QED BY <1>2, <2>1, <2>2, <2>3, SavedStep
<1> QED BY <1>1, <1>2 DEF Tried

\* A snapshot whose save was tried was returned before.
LEMMA TriedIsReturned ==
    ASSUME PipelineTypes, NEW g \in Sources, NEW i, Tried(i, g)
    PROVE  i \in DOMAIN returned
<1>1. CASE PushedBy(i, g)
  BY <1>1 DEF PushedBy, PipelineTypes, Stores
<1>2. CASE saved[g] /\ pc[g] = "incidents" /\ Head(incidents[g]) = i
  <2>1. incidents[g] # <<>>
    BY <1>2 DEF PipelineTypes, Held
  <2> QED BY <1>2, <2>1, HeadIsSnapshot
<1> QED BY <1>1, <1>2 DEF Tried

\* The table of incidents changes by an upsert of the head of its goroutine.
LEMMA RowStep ==
    ASSUME [Next]_vars
    PROVE  \/ UNCHANGED incidentRow
           \/ \E h \in Sources : SaveIncident(h) /\ incidentRow' = UpsertIncident(Head(incidents[h]))
<1>1. ASSUME NEW g \in Sources, Step(g), ~SaveIncident(g) PROVE UNCHANGED incidentRow
  BY <1>1 DEF Step, PublishEvent, EvaluateWindow, Skip, Flag, Take, Unlock, RecordFailure, PublishFailure,
              FailuresDone, PublishIncident, Return
<1>2. ASSUME NEW g \in Sources, SaveIncident(g)
      PROVE  UNCHANGED incidentRow \/ incidentRow' = UpsertIncident(Head(incidents[g]))
  BY <1>2 DEF SaveIncident
<1> QED BY <1>1, <1>2 DEF Next, RecordEvent, vars

\* The rows: a goroutine saves the snapshots it got in their order.
LEMMA RowsStep ==
    PipelineTypes /\ InOrder /\ RowsAreLatest /\ [Next]_vars => RowsAreLatest'
<1> SUFFICES ASSUME PipelineTypes, InOrder, RowsAreLatest, [Next]_vars PROVE RowsAreLatest'
  OBVIOUS
<1>1. /\ unsaved.incidents \subseteq unsaved'.incidents
      /\ \A i \in DOMAIN returned : i \in DOMAIN returned' /\ IncidentOf(i)' = IncidentOf(i)
  BY StoresGrow
<1>2. /\ \A n \in DOMAIN incidentRow : incidentRow[n].snapshot \in SnapshotsOf(n)
      /\ \A i \in DOMAIN returned : IncidentOf(i) \in 1..seq
  BY DEF RowsAreLatest, PipelineTypes, Numbered
<1>3. ASSUME NEW n, NEW i \in SnapshotsOf(n) PROVE i \in SnapshotsOf(n)'
  <2>1. i \in DOMAIN returned /\ IncidentOf(i) = n
    BY <1>3 DEF SnapshotsOf
  <2>2. i \in DOMAIN returned' /\ IncidentOf(i)' = n
    BY <1>1, <2>1
  <2> QED BY <2>2 DEF SnapshotsOf
\* What holds of a snapshot whose save was tried held before.
<1>4. ASSUME NEW g \in Sources, NEW n \in 1..seq', Feeds(g, n)', NEW i \in SnapshotsOf(n)', Tried(i, g)'
      PROVE  /\ n \in 1..seq /\ i \in SnapshotsOf(n) /\ Feeds(g, n)
             /\ Tried(i, g) \/ (SaveIncident(g) /\ incidents[g] # <<>> /\ i = Head(incidents[g]))
  <2>1. Tried(i, g) \/ (SaveIncident(g) /\ incidents[g] # <<>> /\ i = Head(incidents[g]))
    BY <1>4, TriedStep
  <2>2. i \in DOMAIN returned
    BY <2>1, TriedIsReturned, HeadIsSnapshot
  <2>3. IncidentOf(i) = n
    <3>1. IncidentOf(i)' = n
      BY <1>4 DEF SnapshotsOf
    <3> QED BY <3>1, <2>2, <1>1
  <2>4. Feeds(g, n)
    <3> SUFFICES ASSUME NEW j \in SnapshotsOf(n), NEW h \in Sources, Got(j, h) PROVE h = g
      BY DEF Feeds
    <3>1. j \in SnapshotsOf(n)' /\ j \in DOMAIN returned
      BY <1>3 DEF SnapshotsOf
    <3>2. Got(j, h)'
      BY <3>1, GotStays
    <3> QED BY <3>1, <3>2, <1>4 DEF Feeds
  <2> QED BY <2>1, <2>2, <2>3, <2>4, <1>2 DEF SnapshotsOf
<1>5. CASE UNCHANGED incidentRow
  <2>1. \A n \in DOMAIN incidentRow' : incidentRow'[n].snapshot \in SnapshotsOf(n)'
    BY <1>2, <1>3, <1>5
  <2>2. ASSUME NEW g \in Sources, NEW n \in 1..seq', Feeds(g, n)', NEW i \in SnapshotsOf(n)', Tried(i, g)'
        PROVE  \/ i \in unsaved'.incidents
               \/ n \in DOMAIN incidentRow' /\ i <= incidentRow'[n].snapshot
    <3>1. n \in 1..seq /\ i \in SnapshotsOf(n) /\ Feeds(g, n)
      BY <2>2, <1>4
    <3>2. CASE Tried(i, g)
      BY <3>1, <3>2, <1>1, <1>5 DEF RowsAreLatest
    <3>3. CASE SaveIncident(g) /\ i = Head(incidents[g])
      <4>1. CASE incidentRow' = UpsertIncident(i)
        <5>1. IncidentOf(i) = n /\ i \in DOMAIN returned
          BY <3>1 DEF SnapshotsOf
        <5>2. n \in DOMAIN incidentRow' /\ incidentRow'[n].snapshot = i
          BY <4>1, <5>1 DEF UpsertIncident
        <5>3. i <= i
          <6>1. DOMAIN returned = 1..Len(returned)
            BY AppendOne DEF PipelineTypes, Numbered
          <6> QED BY <5>1, <6>1
        <5> QED BY <5>2, <5>3
      <4>2. CASE unsaved' = [unsaved EXCEPT !.incidents = @ \cup {i}]
        <5>1. DOMAIN unsaved = {"failures", "incidents"}
          BY DEF PipelineTypes, Stores
        <5> QED BY <4>2, <5>1
      <4> QED BY <3>3, <4>1, <4>2 DEF SaveIncident, StoreFails
    <3> QED BY <3>2, <3>3, <2>2, <1>4
  <2> QED BY <2>1, <2>2 DEF RowsAreLatest
<1>6. ASSUME NEW h \in Sources, SaveIncident(h), incidentRow' = UpsertIncident(Head(incidents[h]))
      PROVE  RowsAreLatest'
  <2>1. PICK j : j = Head(incidents[h])
    OBVIOUS
  <2>2. PICK k : k = IncidentOf(j)
    OBVIOUS
  <2>3. j \in DOMAIN returned /\ j \in Range(incidents[h]) /\ incidents[h] # <<>>
    BY <1>6, <2>1, HeadIsSnapshot DEF SaveIncident
  <2>4. /\ DOMAIN incidentRow' = DOMAIN incidentRow \cup {k}
        /\ incidentRow'[k].snapshot = j
        /\ \A n \in DOMAIN incidentRow \ {k} : incidentRow'[n] = incidentRow[n]
    BY <1>6, <2>1, <2>2 DEF UpsertIncident
  <2>5. j \in SnapshotsOf(k)
    BY <2>2, <2>3 DEF SnapshotsOf
  <2>6. \A n \in DOMAIN incidentRow' : incidentRow'[n].snapshot \in SnapshotsOf(n)'
    BY <1>2, <1>3, <2>4, <2>5
  <2>7. ASSUME NEW g \in Sources, NEW n \in 1..seq', Feeds(g, n)', NEW i \in SnapshotsOf(n)', Tried(i, g)'
        PROVE  \/ i \in unsaved'.incidents
               \/ n \in DOMAIN incidentRow' /\ i <= incidentRow'[n].snapshot
    <3>1. n \in 1..seq /\ i \in SnapshotsOf(n) /\ Feeds(g, n) /\ i \in DOMAIN returned
      BY <2>7, <1>4 DEF SnapshotsOf
    <3>2. DOMAIN returned = 1..Len(returned)
      BY AppendOne DEF PipelineTypes, Numbered
    <3>3. CASE n = k
      <4>1. g = h
        BY <2>3, <2>5, <3>1, <3>3 DEF Feeds, Got
      <4>2. i <= j
        <5>1. CASE PushedBy(i, g)
          <6>1. i < j
            BY <5>1, <4>1, <2>3 DEF PushedBy, InOrder
          <6> QED BY <6>1, <2>3, <3>1, <3>2
        <5>2. CASE i = Head(incidents[g])
          BY <5>2, <4>1, <2>1, <3>1, <3>2
        <5> QED BY <5>1, <5>2, <2>7, <1>4 DEF Tried
      <4> QED BY <4>2, <3>3, <2>4
    <3>4. CASE n # k
      <4>1. ~(SaveIncident(g) /\ i = Head(incidents[g]) /\ g = h)
        BY <3>1, <3>4, <2>1, <2>2 DEF SnapshotsOf
      <4>2. ~(SaveIncident(g) /\ g # h)
        <5>1. SaveIncident(g) => saved' = [saved EXCEPT ![g] = TRUE] /\ ~saved[g]
          BY DEF SaveIncident
        <5>2. saved' = [saved EXCEPT ![h] = TRUE]
          BY <1>6 DEF SaveIncident
        <5>3. saved \in [Sources -> BOOLEAN]
          BY DEF PipelineTypes, Held
        <5> QED BY <5>1, <5>2, <5>3
      <4>3. Tried(i, g)
        BY <4>1, <4>2, <2>7, <1>4
      <4>4. \/ i \in unsaved.incidents
            \/ n \in DOMAIN incidentRow /\ i <= incidentRow[n].snapshot
        BY <3>1, <4>3 DEF RowsAreLatest
      <4> QED BY <4>4, <3>4, <2>4, <1>1
    <3> QED BY <3>3, <3>4
  <2> QED BY <2>6, <2>7 DEF RowsAreLatest
<1> QED BY <1>5, <1>6, RowStep

\* At first there are no snapshots.
LEMMA InitLatest == Init => InOrder /\ RowsAreLatest /\ HaveNewest
<1> SUFFICES ASSUME Init PROVE InOrder /\ RowsAreLatest /\ HaveNewest
  OBVIOUS
<1>1. /\ \A g \in Sources : incidents[g] = <<>>
      /\ Kind("incident") = {} /\ DOMAIN returned = {} /\ DOMAIN incidentRow = {}
      /\ 1..seq = {}
  BY EmptySequence DEF Init, C!Init, Kind
<1>2. \A g \in Sources : DOMAIN incidents[g] = {}
  BY <1>1, EmptySequence
<1> QED BY <1>1, <1>2 DEF InOrder, RowsAreLatest, HaveNewest

\* When the goroutines are idle, everything they got is pushed.
LEMMA LatestSuffices ==
    PipelineTypes /\ InOrder /\ RowsAreLatest /\ HaveNewest => LatestGroupingOfOne
<1> SUFFICES ASSUME PipelineTypes, InOrder, RowsAreLatest, HaveNewest, AllIdle, NEW n \in 1..seq,
                    \A i, j \in MessagesOf(n) : log[i].by = log[j].by
             PROVE  ShowsLatest(n)
  BY DEF LatestGroupingOfOne
<1>1. PICK top \in SnapshotsOf(n) : \A j \in SnapshotsOf(n) : j <= top
  BY DEF HaveNewest
<1>2. \A i \in SnapshotsOf(n) : i \in Nat
  <2>1. DOMAIN returned = 1..Len(returned)
    BY AppendOne DEF PipelineTypes, Numbered
  <2> QED BY <2>1 DEF SnapshotsOf
<1>3. Newest(SnapshotsOf(n)) = top
  <2>1. /\ Newest(SnapshotsOf(n)) \in SnapshotsOf(n)
        /\ \A j \in SnapshotsOf(n) : j <= Newest(SnapshotsOf(n))
    BY <1>1 DEF Newest
  <2> QED BY <1>1, <1>2, <2>1
<1>4. \A g \in Sources : Range(incidents[g]) = {} /\ ~saved[g]
  <2>1. \A g \in Sources : incidents[g] = <<>>
    BY DEF AllIdle, PipelineTypes, Held
  <2> QED BY <2>1, EmptySequence DEF AllIdle, PipelineTypes, Held
\* Every snapshot of n is the body of a message of n.
<1>5. ASSUME NEW i \in SnapshotsOf(n) PROVE \E k \in MessagesOf(n) : log[k].body = i
  <2>1. PICK g \in Sources : Got(i, g)
    BY DEF InOrder, SnapshotsOf
  <2>2. PICK k \in Kind("incident") : log[k].body = i
    BY <1>4, <2>1 DEF Got, PushedBy
  <2> QED BY <2>2 DEF MessagesOf, SnapshotsOf
<1>6. PICK m \in MessagesOf(n) : log[m].body = top
  BY <1>5
<1>7. PICK g \in Sources : g = log[m].by
  BY DEF MessagesOf, InOrder
<1>8. Feeds(g, n)
  <2> SUFFICES ASSUME NEW i \in SnapshotsOf(n), NEW h \in Sources, Got(i, h) PROVE h = g
    BY DEF Feeds
  <2>1. PICK k \in Kind("incident") : log[k].body = i /\ log[k].by = h
    BY <1>4 DEF Got, PushedBy
  <2>2. k \in MessagesOf(n)
    BY <2>1 DEF MessagesOf, SnapshotsOf
  <2> QED BY <2>1, <2>2, <1>7
<1>9. top \in unsaved.incidents \/ incidentRow[n].snapshot = top
  <2>1. Tried(top, g)
    BY <1>6, <1>7 DEF Tried, PushedBy, MessagesOf
  <2>2. top \in unsaved.incidents \/ (n \in DOMAIN incidentRow /\ top <= incidentRow[n].snapshot)
    BY <1>8, <2>1 DEF RowsAreLatest
  <2>3. n \in DOMAIN incidentRow => incidentRow[n].snapshot \in SnapshotsOf(n)
    BY DEF RowsAreLatest
  <2> QED BY <1>1, <1>2, <2>2, <2>3
<1>10. log[Newest(MessagesOf(n))].body = top
  <2>1. PICK last \in MessagesOf(n) : \A j \in MessagesOf(n) : j <= last
    BY <1>6 DEF HaveNewest
  <2>2. \A j \in MessagesOf(n) : j \in Nat
    <3>1. DOMAIN log = 1..Len(log)
      BY AppendOne DEF PipelineTypes, Stores
    <3> QED BY <3>1 DEF MessagesOf, Kind
  <2>3. Newest(MessagesOf(n)) = last
    <3>1. /\ Newest(MessagesOf(n)) \in MessagesOf(n)
          /\ \A j \in MessagesOf(n) : j <= Newest(MessagesOf(n))
      BY <2>1 DEF Newest
    <3> QED BY <2>1, <2>2, <3>1
  <2>4. log[last].body \in SnapshotsOf(n)
    BY DEF MessagesOf, SnapshotsOf, PipelineTypes, Stores
  <2>5. CASE m < last
    <3>1. log[m].body < log[last].body
      BY <2>5 DEF MessagesOf, InOrder
    <3> QED BY <3>1, <2>4, <1>1, <1>2, <1>6
  <2>6. CASE m = last
    BY <2>3, <2>6, <1>6
  <2> QED BY <2>1, <2>2, <2>5, <2>6
<1> QED BY <1>3, <1>9, <1>10 DEF ShowsLatest

\* Once the sources are idle, store and dashboards have the latest grouping of an
\* incident that one goroutine fed, whatever the others did meanwhile.
THEOREM LatestOfOne == Spec => []LatestGroupingOfOne
<1>1. /\ PipelineTypes /\ InOrder /\ RowsAreLatest /\ HaveNewest /\ PipelineTypes' /\ [Next]_vars
      => InOrder' /\ RowsAreLatest' /\ HaveNewest'
  BY InOrderStep, RowsStep, NewestStep
<1> QED BY InitLatest, <1>1, LatestSuffices, TypesInvariant, PTL DEF Spec

=============================================================================
