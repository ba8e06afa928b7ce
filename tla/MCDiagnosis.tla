----------------------------- MODULE MCDiagnosis -----------------------------
(***************************************************************************)
(* What is computed of the events and stored of it, for TLC: the incidents *)
(* of a correlator and their table, and beside them the pure functions of  *)
(* MCFunctions.  A behaviour exercises one or the other.                   *)
(***************************************************************************)
EXTENDS Incidents, MCFunctions

CONSTANTS r1, r2, act1, drive, p1, p2

MCRuns        == {r1, r2}
MCRules       == {1, 2}
MCOneActuator == {act1}

MCSources     == {p1, p2}

Symmetric == Permutations({r1, r2}) \cup Permutations({p1, p2})

\* Rule 1 declares a subsystem, rule 2 does not.
MCSubsystem == 1 :> drive @@ 2 :> NoName

\* A rule of each kind; two of them react to the same events.
Move  == "move_command"
Reach == "position_reached"

TimeoutRule ==
    [id |-> 1, kind |-> "timeout", subsystem |-> "actuator", level |-> Anything,
     trigger |-> Move, resolve |-> Reach, within |-> 1]
ThresholdRule ==
    [id |-> 2, kind |-> "threshold", subsystem |-> Anything, level |-> "warn",
     field |-> "current_a", operator |-> "gt", threshold |-> 3]
StuckRule ==
    [id |-> 3, kind |-> "consecutive", subsystem |-> "actuator", level |-> Anything,
     trigger |-> Move, resolve |-> Reach, count |-> 2]

MCRuleSet == <<TimeoutRule, ThresholdRule, StuckRule>>

\* Two actuators; events that trigger, resolve or do both; an event of another
\* subsystem whose text matches; a warning with a current above the bound.
MCAlphabet ==
    [station : {"s"}, run : {"r"}, actuator : {"a", "b"}, subsystem : {"actuator"},
     level : {"info"}, says : {{Move}, {Reach}, {Move, Reach}}, fields : {<<>>}, at : {0, 2}]
      \cup
    [station : {"s"}, run : {"r"}, actuator : {"a"}, subsystem : {"power"},
     level : {"info", "warn"}, says : {{Move}}, fields : {"current_a" :> 4}, at : {1}]

\* A rule names its subsystem or none; an actuator may be missing.
MCFailureRows ==
    [rule : {1}, subsystem : {"power"}, actuator : {"x", "y"}, detail : {"d1", "d2"}] \cup
    [rule : {2}, subsystem : {NoName}, actuator : {"x", NoName}, detail : {"d1"}]

MCEventRows == [subsystem : {"power", NoName}, at : {0, 3, 5}]

\* Times with no, one and two decimals in one second, and one in the next.
MCSeen == [id : {"r1", "r2"}, at : {0, 5, 50, 55, 90, 100}]

MCQueries == -1..2

MCInit == IncidentsInit /\ FunctionsInit

\* Bounds of the instance: four failures of one run, without a failing write, or three
\* of two, two snapshots in the hands of the savers; no restart before the first failure,
\* and after it one saver and three failures in all.
MCWithin ==
    /\ Len(observed) + Cardinality({f.run : f \in ToSet(observed)}) <= 5
    /\ Len(toSave[p1]) + Len(toSave[p2]) <= 2
    /\ Len(observed) = 4 => failed = {}
    /\ life > 1 => earlier > 0 /\ earlier + Len(observed) <= 3 /\ toSave[p2] = <<>>

MCNext ==
    \/ IncidentsNext /\ MCWithin' /\ FunctionsInit /\ UNCHANGED functionVars
    \/ FunctionsNext /\ IncidentsInit /\ UNCHANGED incidentsVars

MCSpec == MCInit /\ [][MCNext]_<<incidentsVars, functionVars>>

=============================================================================
