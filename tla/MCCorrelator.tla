---------------------------- MODULE MCCorrelator ----------------------------
(* Instances of Correlator for TLC. *)
EXTENDS Correlator

CONSTANTS r1, r2, act1, act2, drive

MCRuns         == {r1, r2}
MCOneRun       == {r1}
MCRules        == {1, 2}
MCOneRule      == {1}
MCOneActuator  == {act1}
MCTwoActuators == {act1, act2}

\* Rule 1 declares a subsystem, rule 2 does not.
MCSubsystem == 1 :> drive @@ 2 :> NoName

=============================================================================
