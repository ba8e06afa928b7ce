----------------------------- MODULE Correlator -----------------------------
(***************************************************************************)
(* The correlator of internal/correlate/correlate.go: failures are grouped *)
(* into incidents, one open incident per run.                              *)
(*                                                                         *)
(* Members is a Go slice: an array that snapshots returned earlier may     *)
(* share, and a length.  Append fills the array in place while it has room *)
(* and moves to one twice as large when it has not; the sort works in      *)
(* place.  The heap of arrays is therefore part of the state.              *)
(***************************************************************************)
EXTENDS Names, Integers, Sequences, FiniteSets, SequencesExt

CONSTANTS
    Runs,         \* run ids
    RuleIds,      \* rule ids, as integers in the order of the strings
    Actuators,    \* actuator ids
    Subsystem,    \* Subsystem[r]: the subsystem rule r declares, or NoName
    Window,       \* the correlation window
    MaxTime,      \* bound of the model: timestamps are 0..MaxTime
    MaxFailures   \* bound of the model: how many failures are observed

ASSUME CorrelatorAssumption ==
    /\ RuleIds \subseteq Int \cap DOMAIN Subsystem
    /\ Window \in Nat \ {0}
    /\ MaxTime \in Nat
    /\ MaxFailures \in Nat

\* What the correlator reads of a rules.Failure, and keeps as a Member.
Failures == [run : Runs, rule : RuleIds, actuator : Actuators, at : 0..MaxTime]

\* Member.Subsystem, the subsystem a member is shown with.
MemberSubsystem(f) == FirstNamed(Subsystem[f.rule], f.actuator)

VARIABLES
    seq,        \* Correlator.seq
    incident,   \* incident[n]: the Incident that got number n (its id is run#n)
    open,       \* open[r]: the number of the open incident of run r, or 0
    heap,       \* heap[a]: the elements written to backing array a
    capacity,   \* capacity[a]: the capacity of array a
    returned,   \* history: the snapshots returned, with their members then
    observed    \* history: the failures observed, in order

vars == <<seq, incident, open, heap, capacity, returned, observed>>

Init ==
    /\ seq = 0
    /\ incident = <<>>
    /\ open = [r \in Runs |-> 0]
    /\ heap = <<>>
    /\ capacity = <<>>
    /\ returned = <<>>
    /\ observed = <<>>

\* inc.Members, for an incident or for a copy of its struct.
Members(inc) == SubSeq(heap[inc.arr], 1, inc.len)

-----------------------------------------------------------------------------

\* The order of sortMembers.
Before(m1, m2) == m1.at < m2.at \/ (m1.at = m2.at /\ m1.rule < m2.rule)

\* Mutation: the members are not sorted.
SortedNot(ms, m) == Append(ms, m)

\* Mutation: the comparison is reversed, newest first.
SortedNewestFirst(ms, m) ==
    LET k == Cardinality({i \in DOMAIN ms : Before(m, ms[i])})
    IN  InsertAt(ms, k + 1, m)

\* The stable sort of a sorted slice with m appended puts m behind its equals.
Sorted(ms, m) ==
    LET k == Cardinality({i \in DOMAIN ms : ~Before(m, ms[i])})
    IN  InsertAt(ms, k + 1, m)

Distance(t1, t2) == IF t1 >= t2 THEN t1 - t2 ELSE t2 - t1

\* Mutation: gap < window.
JoinsStrictly(f) ==
    /\ open[f.run] # 0
    /\ Distance(f.at, incident[open[f.run]].ended) < Window

\* The failure falls within the window of the open incident's latest member.
Joins(f) ==
    /\ open[f.run] # 0
    /\ Distance(f.at, incident[open[f.run]].ended) <= Window

Snapshot(inc, ms) == [inc |-> inc, members |-> ms]

\* Observe extends the open incident.
Extend(f) ==
    /\ Joins(f)
    /\ LET n    == open[f.run]
           cur  == incident[n]
           ms   == Sorted(Members(cur), f)
           fits == cur.len < capacity[cur.arr]
           next == [cur EXCEPT !.arr = IF fits THEN @ ELSE Len(heap) + 1,
                               !.len = @ + 1,
                               !.started = ms[1].at,
                               !.ended = IF f.at > @ THEN f.at ELSE @,
                               !.root = MemberSubsystem(ms[1])]
       IN  /\ incident' = [incident EXCEPT ![n] = next]
           /\ IF fits
              THEN heap' = [heap EXCEPT ![cur.arr] = ms] /\ UNCHANGED capacity
              ELSE heap' = Append(heap, ms) /\ capacity' = Append(capacity, 2 * cur.len)
           /\ returned' = Append(returned, Snapshot(next, ms))
    /\ UNCHANGED <<seq, open>>

\* Mutation: a new incident takes over the backing array of the one it replaces.
StartReusesArray(f) ==
    /\ ~Joins(f)
    /\ LET old  == open[f.run]
           arr  == IF old = 0 THEN Len(heap) + 1 ELSE incident[old].arr
           inc  == [id |-> seq + 1, run |-> f.run, started |-> f.at, ended |-> f.at,
                    root |-> MemberSubsystem(f), arr |-> arr, len |-> 1]
       IN  /\ incident' = Append(incident, inc)
           /\ returned' = Append(returned, Snapshot(inc, <<f>>))
           /\ heap' = IF old = 0 THEN Append(heap, <<f>>)
                      ELSE [heap EXCEPT ![arr] = <<f>> \o Tail(@)]
           /\ capacity' = IF old = 0 THEN Append(capacity, 1) ELSE capacity
    /\ seq' = seq + 1
    /\ open' = [open EXCEPT ![f.run] = seq + 1]

\* Observe starts an incident; the previous one of the run is closed by that.
Start(f) ==
    /\ ~Joins(f)
    /\ LET inc == [id |-> seq + 1, run |-> f.run, started |-> f.at, ended |-> f.at,
                   root |-> MemberSubsystem(f), arr |-> Len(heap) + 1, len |-> 1]
       IN  /\ incident' = Append(incident, inc)
           /\ returned' = Append(returned, Snapshot(inc, <<f>>))
    /\ seq' = seq + 1
    /\ open' = [open EXCEPT ![f.run] = seq + 1]
    /\ heap' = Append(heap, <<f>>)
    /\ capacity' = Append(capacity, 1)

Observe(f) ==
    /\ Len(observed) < MaxFailures
    /\ observed' = Append(observed, f)
    /\ Extend(f) \/ Start(f)

Next == \E f \in Failures : Observe(f)

Spec == Init /\ [][Next]_vars

-----------------------------------------------------------------------------
(* Properties *)

Incident == [id : 1..seq, run : Runs, started : 0..MaxTime, ended : 0..MaxTime,
             root : Range(Subsystem) \cup Actuators \cup {Unknown}, arr : 1..Len(heap), len : Nat \ {0}]

TypeOK ==
    /\ seq \in Nat
    /\ incident \in Seq(Incident)
    /\ open \in [Runs -> 0..seq]
    /\ heap \in Seq(Seq(Failures))
    /\ capacity \in Seq(Nat) /\ Len(capacity) = Len(heap)
    /\ observed \in Seq(Failures) /\ Len(returned) = Len(observed)

\* The places of failure f: an incident and a position among its members.
PlacesOf(f) ==
    UNION {{<<n, i>> : i \in {i \in DOMAIN Members(incident[n]) : Members(incident[n])[i] = f}}
               : n \in 1..seq}

\* Every observed failure is in exactly one incident, that of its own run, as
\* often as it was observed, and nothing else is: none is lost, made up or shown
\* in two incidents.
Partition ==
    /\ \A n \in 1..seq : \A i \in DOMAIN Members(incident[n]) :
           /\ Members(incident[n])[i].run = incident[n].run
           /\ Members(incident[n])[i] \in ToSet(observed)
    /\ \A f \in ToSet(observed) :
           Cardinality(PlacesOf(f)) = Cardinality({i \in DOMAIN observed : observed[i] = f})

\* An incident is one cascade: earliest member first, no gap between neighbours
\* longer than the window although late failures are inserted in the middle,
\* and bounds and root cause are those of its first and last member
\* ("Members[0] names the probable root-cause subsystem", correlate.go:41-42).
OneCascade ==
    \A n \in 1..seq :
        LET inc == incident[n]
            ms  == Members(inc)
        IN  /\ \A i \in 1..(inc.len - 1) :
                   ~Before(ms[i + 1], ms[i]) /\ ms[i + 1].at - ms[i].at <= Window
            /\ inc.started = ms[1].at
            /\ inc.ended = ms[inc.len].at
            /\ inc.root = MemberSubsystem(ms[1])

\* OneCascade together with the types of all it is about.
CorrelatorInv == TypeOK /\ OneCascade

ObservedOf(r) == {observed[i] : i \in {j \in DOMAIN observed : observed[j].run = r}}

\* Failures of a run that all lie within one window of each other form one
\* incident, whatever their order of arrival ("surfaces as exactly one incident
\* id, carrying every correlated failure", docs/correlation.md:68-70).
CascadeIsOneIncident ==
    \A r \in Runs :
        (\A f, g \in ObservedOf(r) : Distance(f.at, g.at) <= Window)
            => Cardinality({n \in 1..seq : incident[n].run = r}) <= 1

\* A snapshot still shows the members it was returned with.
Stable(snap) == Members(snap.inc) = snap.members

\* Failures that arrive in the order of sortMembers never disturb a snapshot:
\* appending behind the length of a snapshot is harmless.
InOrderIsStable ==
    \A n \in DOMAIN returned :
        (\A i, j \in DOMAIN observed : i < j => ~Before(observed[j], observed[i]))
            => Stable(returned[n])

\* "The returned incident is a snapshot" (correlate.go:94-95).  False: the sort
\* of a later Observe reorders the array the snapshot still points into.
SnapshotsAreStable == \A n \in DOMAIN returned : Stable(returned[n])

=============================================================================
