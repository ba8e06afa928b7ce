---------------------------- MODULE MCDashboard ----------------------------
(* Instances of Dashboard for TLC.  The timeline and the run panel share the *)
(* socket and nothing else: an execution lets the operator work on runs, or  *)
(* the incident grow among the messages of the others' notes.                *)
EXTENDS Dashboard

CONSTANTS run1, run2

MCRuns == {run1, run2}

VARIABLE focus  \* "panel" or "timeline"

MCInit == Init /\ focus \in {"panel", "timeline"}

MCNext ==
    /\ UNCHANGED focus
    /\ Next
    /\ focus = "panel" => UNCHANGED timeline
    /\ focus = "timeline" => requests' = <<>> /\ UNCHANGED resolved

MCFairSpec == MCInit /\ [][MCNext]_<<vars, focus>> /\ Fairness

=============================================================================
