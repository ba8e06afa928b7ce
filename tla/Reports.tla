------------------------------- MODULE Reports -------------------------------
(***************************************************************************)
(* What the comparison of two runs and the lists of runs and incidents     *)
(* promise of the rows they are made from.                                 *)
(***************************************************************************)
EXTENDS RunCompare, Lists

CONSTANT Queries  \* the limits that are asked for, integers

VARIABLES
    a, b,    \* the runs that are compared, their failures and their events
    history  \* the events behind the runs table, or snapshots behind that of incidents

-----------------------------------------------------------------------------
(* The comparison *)

KeysOf(changes) == {<<c.rule, c.actuator>> : c \in changes}

\* Exchanging the runs exchanges what is new and what is resolved, flips every
\* actuator and negates every delta; a run compared with itself changed nothing
\* (runcompare.go:86).
ComparisonMirrors ==
    LET ab == Compare(a, b)
        ba == Compare(b, a)
        aa == Compare(a, a)
    IN  /\ ab.new = ba.resolved /\ ab.resolved = ba.new
        /\ KeysOf(ab.persisting) = KeysOf(ba.persisting)
        /\ {<<c.actuator, c.was>> : c \in ab.actuators} = {<<c.actuator, c.now>> : c \in ba.actuators}
        /\ {<<d.subsystem, d.failureDelta, d.spanDelta>> : d \in ab.deltas}
             = {<<d.subsystem, -d.failureDelta, -d.spanDelta>> : d \in ba.deltas}
        /\ aa.new = {} /\ aa.resolved = {} /\ aa.actuators = {}
        /\ \A d \in aa.deltas : d.failureDelta = 0 /\ d.spanDelta = 0

\* The failures of a run that are counted under the name s.
NamedSo(run, s) == {i \in DOMAIN run.failures : SubsystemOrActuator(run.failures[i]) = s}

\* Those that have another name once they are read back from the store.
Misnamed(run) ==
    {i \in DOMAIN run.failures :
        SubsystemOrActuator(run.failures[i]) # SubsystemOrActuator(loadRunInput(run).failures[i])}

\* n counts the failures of s, but the misnamed ones under the name they got.
CountsBut(n, run, s) ==
    n + Cardinality(NamedSo(run, s) \cap Misnamed(run))
        = Cardinality(NamedSo(run, s)) + Cardinality(NamedSo(loadRunInput(run), s) \cap Misnamed(run))

\* The API promises "for every subsystem seen in either run" its "failure count per
\* run" (docs/run-comparison.md:41-44), but compares failures that the store gives
\* back without their subsystems.  Its rows still account for every failure, repeated
\* ones included, in one row each: a row is right about its subsystem but for the
\* failures that got another name, and a subsystem without a row has no others.
\* A sum over the rows is the size of the disjoint union of so many pairs.
DeltasAccountForFailures ==
    LET deltas == Compare(loadRunInput(a), loadRunInput(b)).deltas
        names  == {d.subsystem : d \in deltas}
    IN  /\ \A d \in deltas : CountsBut(d.failuresA, a, d.subsystem) /\ CountsBut(d.failuresB, b, d.subsystem)
        /\ \A s \in (SubsystemsOf(a) \cup SubsystemsOf(b)) \ names :
               NamedSo(a, s) \subseteq Misnamed(a) /\ NamedSo(b, s) \subseteq Misnamed(b)
        /\ Cardinality(UNION {{d.subsystem} \X (1..d.failuresA) : d \in deltas}) = Len(a.failures)
        /\ Cardinality(UNION {{d.subsystem} \X (1..d.failuresB) : d \in deltas}) = Len(b.failures)
        /\ Cardinality(names) = Cardinality(deltas)

-----------------------------------------------------------------------------
(* The lists *)

TimesOf(id) == {i \in DOMAIN history : history[i].id = id}
Ids         == {history[i].id : i \in DOMAIN history}
FirstTime   == [id \in Ids |-> history[CHOOSE i \in TimesOf(id) : \A j \in TimesOf(id) : i <= j].at]
LastTime    == [id \in Ids |-> history[CHOOSE i \in TimesOf(id) : \A j \in TimesOf(id) : j <= i].at]

\* y comes after x although it is later: within a second, and only where the text
\* of x ends in the middle of that of y.
OnlyByText(x, y) ==
    y > x => /\ x \div Second = y \div Second
             /\ IsStrictPrefix(Fraction(x), Fraction(y))

\* A list holds as many as the limit allows, in the order of time but for OnlyByText,
\* and nothing later is left out for it.
InOrder(list, time, limit) ==
    /\ Len(list) = IF Cardinality(Ids) < limit THEN Cardinality(Ids) ELSE limit
    /\ \A i, j \in DOMAIN list : i < j => OnlyByText(time[list[i]], time[list[j]])
    /\ \A i \in DOMAIN list, id \in Ids \ ToSet(list) : OnlyByText(time[list[i]], time[id])

\* "ListRuns returns runs ordered by most recent activity first" (store.go:197), and
\* incidents come "most recent first" (store.go:370): true of the texts, which
\* may disagree with the times by less than a second.
RecentFirst ==
    \A query \in Queries :
        LET limit == EffectiveLimit(query)
        IN  /\ \A list \in ListRuns(RunsTable(history), limit) : InOrder(list, LastTime, limit)
            /\ \A list \in ListIncidents(IncidentsTable(history), limit) : InOrder(list, FirstTime, limit)

=============================================================================
