------------------------------- MODULE Service -------------------------------
(***************************************************************************)
(* The life cycle of the process, cmd/dashboard/main.go: the readers of    *)
(* Ingest call the pipeline's Publish, which stores an event and pushes it *)
(* before they read on; a signal shuts hub and store down in the order of  *)
(* run(); the process may crash at any moment and be started again.  The   *)
(* files and the events table survive it, connections and memory do not.   *)
(***************************************************************************)
EXTENDS Ingest

CONSTANT MaxLives  \* bound of the model: how often the process is started

ASSUME LivesAssumption == MaxLives \in Nat \ {0}

VARIABLES
    phase,    \* where run() is: "serving", "waiting" (wg.Wait), "closed" (store), "down"
    hubOpen,  \* the hub accepts messages
    hand,     \* hand[s]: what Publish does next with the line s was read: "record", "push"
    rows,     \* rows[s]: the events of s in the events table, in the order of their ids
    pushed,   \* pushed[s]: the lines of s the hub took from this process
    failed,   \* history: failed[s], the lines of s the open store did not take; those of
              \* a file in this process, which reads it again
    refused,  \* history: streams of which the closed store refused an event
    life      \* history: how often the process was started

processVars == <<phase, hubOpen, hand, rows, pushed, failed, refused, life>>
serviceVars == <<vars, processVars>>

ServiceInit ==
    /\ Init
    /\ phase = "serving"
    /\ hubOpen = TRUE
    /\ hand = [s \in Streams |-> "none"]
    /\ rows = [s \in Streams |-> <<>>]
    /\ pushed = [s \in Streams |-> {}]
    /\ failed = [s \in Streams |-> {}]
    /\ refused = {}
    /\ life = 1

Up == phase # "down"

-----------------------------------------------------------------------------
(* The goroutine that reads a stream *)

\* A reader takes its next step; an event goes to sink.Publish, which it waits for.
Read(s) ==
    /\ Up
    /\ hand[s] = "none"
    /\ IF s \in Files THEN TailStep(s) ELSE Handler(s)
    /\ hand' = [hand EXCEPT ![s] = IF out' = out THEN "none" ELSE "record"]
    /\ UNCHANGED <<phase, hubOpen, rows, pushed, failed, refused, life>>

\* Mutation: every event is recorded twice.
RowsTwice(s) == rows[s] \o <<[line |-> Last(out[s]), life |-> life], [line |-> Last(out[s]), life |-> life]>>

\* The INSERT into events.
WithRow(s) == Append(rows[s], [line |-> Last(out[s]), life |-> life])

\* Publish calls RecordEvent, whose error is only logged: the store is closed, the disk
\* is full or locked, the event has no run.
Record(s) ==
    /\ Up
    /\ hand[s] = "record"
    /\ \/ /\ phase # "closed"
          /\ rows' = [rows EXCEPT ![s] = WithRow(s)]
          /\ UNCHANGED <<failed, refused>>
       \/ /\ phase # "closed"
          /\ failed' = [failed EXCEPT ![s] = @ \cup {Last(out[s])}]
          /\ UNCHANGED <<rows, refused>>
       \/ /\ phase = "closed"
          /\ refused' = refused \cup {s}
          /\ UNCHANGED <<rows, failed>>
    /\ hand' = [hand EXCEPT ![s] = "push"]
    /\ UNCHANGED <<vars, phase, hubOpen, pushed, life>>

\* ... and then the hub's Publish, which a closed hub ignores.
Push(s) ==
    /\ Up
    /\ hand[s] = "push"
    /\ pushed' = IF hubOpen THEN [pushed EXCEPT ![s] = @ \cup {Last(out[s])}] ELSE pushed
    /\ hand' = [hand EXCEPT ![s] = "none"]
    /\ UNCHANGED <<vars, phase, hubOpen, rows, failed, refused, life>>

-----------------------------------------------------------------------------
(* run() *)

\* A signal, or the error of ListenAndServe, cancels the context.
Signal == phase = "serving" /\ Cancel /\ UNCHANGED processVars

\* httpServer.Shutdown has returned, after ten seconds at most; h.Shutdown closes the hub.
CloseHub ==
    /\ phase = "serving" /\ done
    /\ phase' = "waiting"
    /\ hubOpen' = FALSE
    /\ UNCHANGED <<vars, hand, rows, pushed, failed, refused, life>>

\* Mutation: the tail is not in the wait group.
WaitForNobody == TRUE

\* Mutation: the handlers are in it, too.
WaitForReaders == \A s \in Streams : state[s] \in Returned /\ hand[s] = "none"

\* wg.Wait waits for the tail, its last Publish included, and for the listeners, not for
\* the handlers of connections.
WaitGroupDone == \A f \in Files : state[f] \in Returned /\ hand[f] = "none"

\* run() returns: the deferred st.Close.
CloseStore ==
    /\ phase = "waiting"
    /\ WaitGroupDone
    /\ phase' = "closed"
    /\ UNCHANGED <<vars, hubOpen, hand, rows, pushed, failed, refused, life>>

\* main returns, and takes the goroutines that are left with it.
Exit ==
    /\ phase = "closed"
    /\ phase' = "down"
    /\ UNCHANGED <<vars, hubOpen, hand, rows, pushed, failed, refused, life>>

\* A panic, a kill, a power cut.
Crash ==
    /\ Up
    /\ phase' = "down"
    /\ UNCHANGED <<vars, hubOpen, hand, rows, pushed, failed, refused, life>>

\* Mutation: the new process tails its file from the end.
StartAtEnd == [s \in Streams |-> Len(written[s])]

\* The tail opens its file at the start.
StartPosition == [s \in Streams |-> IF s \in Files THEN 0 ELSE pos[s]]

\* A new process; the connections of the old one are dead.
Start ==
    /\ ~Up
    /\ life < MaxLives
    /\ life' = life + 1
    /\ phase' = "serving"
    /\ hubOpen' = TRUE
    /\ hand' = [s \in Streams |-> "none"]
    /\ pushed' = [s \in Streams |-> {}]
    /\ pos' = StartPosition
    /\ state' = [s \in Streams |-> IF s \in Files THEN "reading"
                                   ELSE IF state[s] = "dialing" THEN "dialing" ELSE "lost"]
    /\ done' = FALSE
    /\ out' = [s \in Streams |-> IF s \in Files THEN <<>> ELSE out[s]]
    /\ cut' = [s \in Streams |-> IF s \in Files THEN {} ELSE cut[s]]
    /\ failed' = [s \in Streams |-> IF s \in Files THEN {} ELSE failed[s]]
    /\ UNCHANGED <<kind, written, ended, flooded, rows, refused>>

-----------------------------------------------------------------------------

Goroutine(s) == Read(s) \/ Record(s) \/ Push(s)
Main         == CloseHub \/ CloseStore \/ Exit

ServiceNext ==
    \/ \E s \in Streams : Station(s) /\ UNCHANGED processVars
    \/ \E s \in Streams : Goroutine(s)
    \/ Signal
    \/ Main
    \/ Crash
    \/ Start

ServiceSpec == ServiceInit /\ [][ServiceNext]_serviceVars

\* What nobody but the goroutine decides: that a file cannot be read is not its doing.
Progress(s) == (Read(s) /\ state'[s] # "failed") \/ Record(s) \/ Push(s)

\* The goroutines of a process run while it does, and the select of the tail, which
\* chooses at random between its ticker and the context, does not favour the
\* ticker for ever.  Nothing is assumed of the stations, nor that anybody starts
\* the process again.
ServiceFairSpec ==
    /\ ServiceSpec
    /\ \A s \in Streams : WF_serviceVars(Progress(s))
    /\ \A f \in Files : SF_serviceVars(Up /\ hand[f] = "none" /\ StopTail(f) /\ UNCHANGED processVars)
    /\ WF_serviceVars(Main)

-----------------------------------------------------------------------------
(* Properties *)

\* The variables have their types.
ServiceTypeOK ==
    /\ TypeOK
    /\ phase \in {"serving", "waiting", "closed", "down"}
    /\ hubOpen \in BOOLEAN
    /\ hand \in [Streams -> {"none", "record", "push"}]
    /\ \A s \in Streams : hand[s] # "none" => out[s] # <<>>
    /\ rows \in [Streams -> Seq([line : 1..MaxLines, life : 1..life])]
    /\ pushed \in [Streams -> SUBSET (1..MaxLines)]
    /\ failed \in [Streams -> SUBSET (1..MaxLines)]
    /\ refused \subseteq Streams
    /\ life \in 1..MaxLives

\* run() closes the store only when the tail has returned: no event of the file
\* meets a closed store, however long its last drain takes.
StoreOutlivesTail == refused \cap Files = {}

StoredIn(s, l) == {rows[s][i].line : i \in {j \in DOMAIN rows[s] : rows[s][j].life = l}}

\* What a dashboard was shown is in the table, or the open store failed to take it,
\* also while a shutdown that waits for no TCP handler closes the store under its feet:
\* the hub closes before the store.
PushedIsStored == \A s \in Streams : pushed[s] \subseteq StoredIn(s, life) \cup failed[s]

\* The order of the shutdown, hub, tail, store, is the one in which no event of the file
\* meets a closed store, and none of any stream is shown that a closed store refused.
ClosingOrder == StoreOutlivesTail /\ PushedIsStored

\* A line is stored more than once only by reading its file again in another
\* life of the process; events of a connection are stored once.
DuplicatesAreRestarts ==
    \A s \in Streams : \A i, j \in DOMAIN rows[s] :
        i < j /\ rows[s][i].line = rows[s][j].line
            => s \in Files /\ rows[s][i].life < rows[s][j].life

\* The types, and the rows an operator may count on.
RowsInv == ServiceTypeOK /\ DuplicatesAreRestarts

Kept(s, n) ==
    \/ \E l \in 1..life : n \in StoredIn(s, l)
    \/ n \in cut[s] \cup failed[s]
    \/ state[s] \in Returned /\ NeverRead(s, n)

\* Whatever crashes and shutdowns come before: if the process finally stays up, every
\* event a station has completed is in the table in the end, unless a drain cut it,
\* the store failed to take it, or its reader has ended before it (of a connection: with
\* an earlier process or at an overlong line; of a file: at an error).
EventsAreKept ==
    <>[](phase = "serving" /\ ~done) =>
        \A s \in Streams : \A n \in 1..MaxLines :
            [](n \in Complete(s, Len(written[s])) /\ IsEvent(s, n) => <>[]Kept(s, n))

\* A shutdown comes to an end, whatever stations do with their connections, unless the
\* tail finds, again and again, that its file grows while it is reading: "Run tails the
\* file until ctx is cancelled" (filetail.go:31) is true only of files that do not.
ShutdownEnds ==
    []<>(\E f \in flooded : state[f] = "reading") \/ (done ~> ~Up)

=============================================================================
