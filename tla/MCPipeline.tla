----------------------------- MODULE MCPipeline ------------------------------
(* Instances of Pipeline for TLC. *)
EXTENDS Pipeline

CONSTANTS tail, tcp

MCSources == {tail, tcp}

MCRuns      == {"r"}
MCActuators == {"a", "b"}
MCRuleIds   == {1, 2}
MCSubsystem == 1 :> "actuator" @@ 2 :> "actuator"

TimeoutRule ==
    [id |-> 1, kind |-> "timeout", subsystem |-> "actuator", level |-> Anything,
     trigger |-> "move_command", resolve |-> "position_reached", within |-> 2]
ThresholdRule ==
    [id |-> 2, kind |-> "threshold", subsystem |-> "actuator", level |-> Anything,
     field |-> "current_a", operator |-> "gt", threshold |-> 3]

MCRuleSet == <<TimeoutRule, ThresholdRule>>

Move(act, t) ==
    [station |-> "s", run |-> "r", actuator |-> act, subsystem |-> "actuator",
     level |-> "info", says |-> {"move_command"}, fields |-> <<>>, at |-> t]
Reach(act, t) == [Move(act, t) EXCEPT !.says = {"position_reached"}]
Current(act, t, v) == [Move(act, t) EXCEPT !.says = {}, !.fields = ("current_a" :> v)]

\* A move, a move and an overcurrent in one event, an overcurrent seen twice at
\* different times, a later one beyond the correlation window.
MCEvents == {Move("a", 0), [Current("b", 1, 4) EXCEPT !.says = {"move_command"}],
             Current("a", 0, 4), Current("a", 1, 4), Current("a", 3, 5)}

\* An event that breaks two rules at once, and the late answer to its move, whose
\* failure is beyond the correlation window of the first two.
MCCascade == {[Current("b", 1, 4) EXCEPT !.says = {"move_command"}], Reach("b", 4)}

=============================================================================
