---------------------------- MODULE MCFunctions -----------------------------
(***************************************************************************)
(* The pure functions of the program for TLC: the rule engine for every    *)
(* sequence of at most MaxEvents events of Alphabet, the comparison for    *)
(* every pair of runs with at most MaxRows failures and events between     *)
(* them, the lists for every history of at most MaxSeen rows of Seen.  A   *)
(* behaviour grows one of these inputs.                                    *)
(***************************************************************************)
EXTENDS Detection, Reports

CONSTANTS Alphabet, FailureRows, EventRows, Seen, MaxEvents, MaxRows, MaxSeen

functionVars == <<events, a, b, history>>

Empty == [failures |-> <<>>, events |-> <<>>]

Rows(run) == Len(run.failures) + Len(run.events)

Grow(run) ==
    {[run EXCEPT !.failures = Append(@, f)] : f \in FailureRows} \cup
    {[run EXCEPT !.events = Append(@, e)] : e \in EventRows}

FunctionsInit == events = <<>> /\ a = Empty /\ b = Empty /\ history = <<>>

AddEvent ==
    /\ Rows(a) + Rows(b) + Len(history) = 0
    /\ Len(events) < MaxEvents
    /\ \E e \in Alphabet : events' = Append(events, e)
    /\ UNCHANGED <<a, b, history>>

AddRow ==
    /\ events = <<>> /\ history = <<>>
    /\ Rows(a) + Rows(b) < MaxRows
    /\ \/ a' \in Grow(a) /\ UNCHANGED b
       \/ b' \in Grow(b) /\ UNCHANGED a
    /\ UNCHANGED <<events, history>>

AddSeen ==
    /\ events = <<>> /\ Rows(a) + Rows(b) = 0
    /\ Len(history) < MaxSeen
    /\ \E e \in Seen : history' = Append(history, e)
    /\ UNCHANGED <<events, a, b>>

FunctionsNext == AddEvent \/ AddRow \/ AddSeen

=============================================================================
