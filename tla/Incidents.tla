------------------------------ MODULE Incidents ------------------------------
(***************************************************************************)
(* The incidents table of internal/store/store.go behind one correlator.   *)
(* The goroutines in Publish observe the failures of an event, one of them *)
(* at a time, and each saves the snapshots it got after it gave up the     *)
(* lock: SaveIncident reads the members from their array, and writes the   *)
(* row.  A write may fail.  The process may crash between any two of these *)
(* steps and be started again with an empty correlator over the old table. *)
(***************************************************************************)
EXTENDS Correlator

CONSTANTS
    Sources,         \* the goroutines that call Publish
    NoSource,        \* nobody
    MaxStoreErrors,  \* bound of the model: how many writes of one process fail
    MaxLives         \* bound of the model: how often the process is started

ASSUME NoSourceAssumption == NoSource \notin Sources
ASSUME LivesAssumption    == MaxLives \in Nat \ {0} /\ MaxStoreErrors \in Nat

VARIABLES
    holder,   \* the goroutine that holds pipeline.mu and observes, or NoSource
    toSave,   \* toSave[p]: the snapshots p got and has not saved yet
    read,     \* read[p]: the members p read for the first of them, or <<>>
    table,    \* the incidents table, a function of the ids <<run, number>>
    life,     \* history: how often the process was started
    earlier,  \* history: how many failures earlier processes observed
    written,  \* history: the versions of incidents this process wrote
    failed    \* history: the versions whose write failed

saverVars     == <<holder, toSave, read>>
lifeVars      == <<life, earlier>>
incidentsVars == <<vars, saverVars, table, lifeVars, written, failed>>

IncidentsInit ==
    /\ Init
    /\ holder = NoSource
    /\ toSave = [p \in Sources |-> <<>>]
    /\ read = [p \in Sources |-> <<>>]
    /\ table = <<>>
    /\ life = 1
    /\ earlier = 0
    /\ written = {}
    /\ failed = {}

-----------------------------------------------------------------------------

\* The loop of Publish under the lock: one failure after another.
ObserveOne(p, f) ==
    /\ holder = p \/ (holder = NoSource /\ toSave[p] = <<>>)
    /\ earlier + Len(observed) < MaxFailures
    /\ Observe(f)
    /\ holder' = p
    /\ toSave' = [toSave EXCEPT ![p] = Append(@, Last(returned').inc)]
    /\ UNCHANGED <<read, table, lifeVars, written, failed>>

Unlock(p) ==
    /\ holder = p
    /\ holder' = NoSource
    /\ UNCHANGED <<vars, toSave, read, table, lifeVars, written, failed>>

-----------------------------------------------------------------------------
(* SaveIncident *)

\* incidentID
Id(inc) == <<inc.run, inc.id>>

\* An incident grows with every failure: its number and length name its state.
Version(inc) == <<inc.id, inc.len>>

Saving(p) == holder # p /\ toSave[p] # <<>>

\* json.Marshal begins with the members their array holds now.
ReadMembers(p) ==
    /\ Saving(p)
    /\ read[p] = <<>>
    /\ read' = [read EXCEPT ![p] = Members(Head(toSave[p]))]
    /\ UNCHANGED <<vars, holder, toSave, table, lifeVars, written, failed>>

\* What it found: if Observe sorted the array meanwhile, which it does without
\* the reader's knowledge, each element is any of the old or of the new ones.
Found(p) ==
    LET inc == Head(toSave[p])
        now == Members(inc)
    IN  IF now = read[p] THEN {now} ELSE [1..inc.len -> ToSet(read[p]) \cup ToSet(now)]

\* The row of a snapshot with the members ms.
Row(inc, ms) == [started |-> inc.started, ended |-> inc.ended, root |-> inc.root,
                 members |-> ms, insertedBy |-> life]

\* The table with that row under that id.
Put(id, row) == [i \in DOMAIN table \cup {id} |-> IF i = id THEN row ELSE table[i]]

\* Mutation: DO UPDATE SET forgets the root cause.
UpsertKeepsRoot(inc, ms) ==
    Put(Id(inc), IF Id(inc) \in DOMAIN table
                 THEN [table[Id(inc)] EXCEPT !.ended = inc.ended, !.members = ms]
                 ELSE Row(inc, ms))

\* INSERT ... ON CONFLICT(id) DO UPDATE SET everything but started_at.
Upsert(inc, ms) ==
    Put(Id(inc), IF Id(inc) \in DOMAIN table
                 THEN [table[Id(inc)] EXCEPT !.ended = inc.ended, !.root = inc.root,
                                             !.members = ms]
                 ELSE Row(inc, ms))

\* Publish goes on to the next snapshot.
NextSnapshot(p) ==
    /\ toSave' = [toSave EXCEPT ![p] = Tail(@)]
    /\ read' = [read EXCEPT ![p] = <<>>]
    /\ UNCHANGED <<vars, holder, lifeVars>>

SaveIncident(p) ==
    /\ Saving(p)
    /\ read[p] # <<>>
    /\ \E ms \in Found(p) : table' = Upsert(Head(toSave[p]), ms)
    /\ written' = written \cup {Version(Head(toSave[p]))}
    /\ NextSnapshot(p)
    /\ UNCHANGED failed

\* The statement fails: Publish logs that and never tries this snapshot again.
SaveFails(p) ==
    /\ Saving(p)
    /\ read[p] # <<>>
    /\ Cardinality(failed) < MaxStoreErrors
    /\ failed' = failed \cup {Version(Head(toSave[p]))}
    /\ NextSnapshot(p)
    /\ UNCHANGED <<table, written>>

-----------------------------------------------------------------------------

\* The process crashes, or ends, and is started again.
Restart ==
    /\ life < MaxLives
    /\ life' = life + 1
    /\ earlier' = earlier + Len(observed)
    /\ seq' = 0
    /\ open' = [r \in Runs |-> 0]
    /\ incident' = <<>> /\ heap' = <<>> /\ capacity' = <<>>
    /\ returned' = <<>> /\ observed' = <<>>
    /\ holder' = NoSource
    /\ toSave' = [p \in Sources |-> <<>>]
    /\ read' = [p \in Sources |-> <<>>]
    /\ written' = {} /\ failed' = {}
    /\ UNCHANGED table

SourceStep(p) ==
    \/ \E f \in Failures : ObserveOne(p, f)
    \/ Unlock(p)
    \/ ReadMembers(p)
    \/ SaveIncident(p)
    \/ SaveFails(p)

IncidentsNext == (\E p \in Sources : SourceStep(p)) \/ Restart

IncidentsSpec == IncidentsInit /\ [][IncidentsNext]_incidentsVars

-----------------------------------------------------------------------------
(* Properties *)

\* A failure of run r is dated before one that was observed earlier.
LateFailure(r) ==
    \E i, j \in DOMAIN observed :
        i < j /\ observed[i].run = r /\ observed[j].run = r /\ observed[j].at < observed[i].at

\* Once nothing waits to be saved, the row of an incident shows its members, end
\* and root cause as the correlator has them, though snapshots share their arrays
\* and are read while others are sorted, with two exceptions: the write of its
\* last snapshot failed, or another goroutine wrote an older snapshot after it.
\* Of the start the table knows the first that was ever saved under that id: it
\* differs only after a late failure, or if an earlier process used the number for
\* another incident of the run, whose row is overwritten ("the latest member set
\* replaces the previous one", store.go:345).
RowsAreExplained ==
    (\A p \in Sources : toSave[p] = <<>>) => \A n \in 1..seq :
        LET inc       == incident[n]
            row       == table[Id(inc)]
            upToDate  == row.members = Members(inc) /\ row.ended = inc.ended /\ row.root = inc.root
            overtaken == Len(row.members) < inc.len
        IN  \/ Version(inc) \in failed
            \/ /\ Version(inc) \in written
               /\ upToDate \/ overtaken
               /\ row.started # inc.started => row.insertedBy < life \/ LateFailure(inc.run)

=============================================================================
