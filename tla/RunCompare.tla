----------------------------- MODULE RunCompare -----------------------------
(***************************************************************************)
(* The comparison of two runs: internal/runcompare/runcompare.go over what *)
(* loadRunInput of internal/api/api.go reads from the store.               *)
(*                                                                         *)
(* The lists of a Diff are sorted by their keys, which are unique: they    *)
(* are sets of records here.  A time is in ticks, Milli of them in a       *)
(* millisecond.                                                            *)
(***************************************************************************)
EXTENDS Names, Integers, Sequences, FiniteSets, FiniteSetsExt, Functions

\* FailureKey: the rule and the actuator.
FailureKey(f) == <<f.rule, f.actuator>>

FirstOf(fs, k) == CHOOSE i \in DOMAIN fs : /\ FailureKey(fs[i]) = k
                                           /\ \A j \in 1..(i - 1) : FailureKey(fs[j]) # k

\* The map of the first failure of every key.
indexFailures(fs) ==
    [k \in {FailureKey(fs[i]) : i \in DOMAIN fs} |-> fs[FirstOf(fs, k)]]

SubsystemOrActuator(f) == FirstNamed(f.subsystem, f.actuator)

changeOf(f) == [rule |-> f.rule, actuator |-> f.actuator,
                subsystem |-> SubsystemOrActuator(f), detail |-> f.detail]

Changes(index, keys) == {changeOf(index[k]) : k \in keys}

\* Mutation: only what is new in the second run is listed.
actuatorChangesAll(indexA, indexB) ==
    {[actuator |-> k[2], was |-> FALSE, now |-> TRUE] : k \in DOMAIN indexB \ DOMAIN indexA}

actuatorSet(index) == {k[2] : k \in DOMAIN index} \ {NoName}

\* The actuators that fail in just one of the runs.
actuatorChanges(indexA, indexB) ==
    LET failingA == actuatorSet(indexA)
        failingB == actuatorSet(indexB)
    IN  {[actuator |-> a, was |-> a \in failingA, now |-> a \in failingB] :
            a \in (failingA \ failingB) \cup (failingB \ failingA)}

\* Mutation: repeated failures of a rule and an actuator count once.
failuresOncePerKey(fs, s) ==
    Cardinality({FailureKey(fs[i]) : i \in {j \in DOMAIN fs : SubsystemOrActuator(fs[j]) = s}})

failuresBySubsystem(fs, s) ==
    Cardinality({i \in DOMAIN fs : SubsystemOrActuator(fs[i]) = s})

EventSubsystem(e) == IF e.subsystem = NoName THEN Unknown ELSE e.subsystem

TimesIn(events, s) ==
    {events[i].at : i \in {j \in DOMAIN events : EventSubsystem(events[j]) = s}}

\* The time between the first and the last event of a subsystem, zero without any.
spanBySubsystem(events, s) ==
    LET times == TimesIn(events, s)
    IN  IF times = {} THEN 0 ELSE Max(times) - Min(times)

SubsystemsOf(run) ==
    {SubsystemOrActuator(f) : f \in Range(run.failures)} \cup
    {EventSubsystem(e) : e \in Range(run.events)}

\* A duration in milliseconds is truncated before the difference is taken.
subsystemDeltas(a, b) ==
    {LET failA == failuresBySubsystem(a.failures, s)
         failB == failuresBySubsystem(b.failures, s)
         spanA == spanBySubsystem(a.events, s) \div Milli
         spanB == spanBySubsystem(b.events, s) \div Milli
     IN  [subsystem |-> s, failuresA |-> failA, failuresB |-> failB,
          failureDelta |-> failB - failA,
          spanA |-> spanA, spanB |-> spanB, spanDelta |-> spanB - spanA] :
        s \in SubsystemsOf(a) \cup SubsystemsOf(b)}

Compare(a, b) ==
    LET indexA == indexFailures(a.failures)
        indexB == indexFailures(b.failures)
    IN  [new        |-> Changes(indexB, DOMAIN indexB \ DOMAIN indexA),
         resolved   |-> Changes(indexA, DOMAIN indexA \ DOMAIN indexB),
         persisting |-> Changes(indexB, DOMAIN indexA \cap DOMAIN indexB),
         actuators  |-> actuatorChanges(indexA, indexB),
         deltas     |-> subsystemDeltas(a, b)]

\* What RunFailures reads back of the failures RecordFailure stored: the table
\* has no column for the subsystem.
Stored(failures) == [i \in DOMAIN failures |-> [failures[i] EXCEPT !.subsystem = NoName]]

\* loadRunInput of a run whose failures and events were recorded.
loadRunInput(run) == [run EXCEPT !.failures = Stored(@)]

=============================================================================
