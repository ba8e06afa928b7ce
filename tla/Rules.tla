-------------------------------- MODULE Rules --------------------------------
(***************************************************************************)
(* The rule engine of internal/rules/rules.go: the failures that a rule    *)
(* set finds in a sequence of events.  A detector is a loop over the       *)
(* events with a map of open states: state[n] is where the loop is behind  *)
(* the first n of them.                                                    *)
(*                                                                         *)
(* A rule is a record with the fields of rules.Rule that its kind uses; an *)
(* event carries, instead of a text, the set "says" of the patterns that   *)
(* its message contains, and the values of its numeric fields.             *)
(***************************************************************************)
EXTENDS Names, Integers, Sequences, FiniteSets, SequencesExt

CONSTANTS
    Anything,  \* the empty subsystem or level of a rule: no restriction
    RuleSet    \* the rules the process was started with, a sequence

\* validate, per kind: the two patterns, the field, the bounds.
Patterned(r) == r.trigger # "" /\ r.resolve # ""

Valid(r) ==
    \/ r.kind = "timeout" /\ Patterned(r) /\ r.within > 0
    \/ r.kind = "threshold" /\ r.field # "" /\ r.operator \in {"gt", "lt"}
    \/ r.kind = "consecutive" /\ Patterned(r) /\ r.count \in Nat /\ r.count >= 2

\* The rule sets that Load accepts.
Loadable(rules) ==
    rules \in Seq(Range(rules)) /\ rules # <<>> /\ \A i \in DOMAIN rules : Valid(rules[i])

\* The process does not start with another one.
ASSUME RuleSetAssumption == Loadable(RuleSet)

Scoped(r, e) ==
    /\ r.subsystem \in {Anything, e.subsystem}
    /\ r.level \in {Anything, e.level}

Triggers(r, e) == Scoped(r, e) /\ r.trigger \in e.says
\* The resolve pattern is tried only when the trigger pattern does not match.
Resolves(r, e) == Scoped(r, e) /\ r.trigger \notin e.says /\ r.resolve \in e.says

\* The detectors keep their state per run and actuator, whatever the station.
Key(e) == <<e.run, e.actuator>>

Failure(r, station, key, detail, at) ==
    [rule |-> r.id, station |-> station, run |-> key[1], actuator |-> key[2],
     detail |-> detail, at |-> at]

With(f, k, v) == [x \in DOMAIN f \cup {k} |-> IF x = k THEN v ELSE f[x]]
Drop(f, k)    == [x \in DOMAIN f \ {k} |-> f[x]]

-----------------------------------------------------------------------------
(* timeout *)

\* Mutation: an answered trigger stays open.
TimeoutStepKeeps(r, st, e) ==
    LET k == Key(e)
    IN  CASE Triggers(r, e) ->
                 [st EXCEPT !.open = With(@, k, [station |-> e.station, at |-> e.at])]
          [] Resolves(r, e) /\ k \in DOMAIN st.open ->
                 LET took == e.at - st.open[k].at
                     late == Failure(r, e.station, k, <<"late", Rounded(took)>>, e.at)
                 IN  [st EXCEPT !.out = IF took > r.within THEN Append(@, late) ELSE @]
          [] OTHER -> st

TimeoutStep(r, st, e) ==
    LET k == Key(e)
    IN  CASE Triggers(r, e) ->
                 [open |-> With(st.open, k, [station |-> e.station, at |-> e.at]), out |-> st.out]
          [] Resolves(r, e) /\ k \in DOMAIN st.open ->
                 LET took == e.at - st.open[k].at
                     late == Failure(r, e.station, k, <<"late", Rounded(took)>>, e.at)
                 IN  [open |-> Drop(st.open, k),
                      out  |-> IF took > r.within THEN Append(st.out, late) ELSE st.out]
          [] OTHER -> st

TimeoutLoop(r, events) ==
    LET state[n \in 0..Len(events)] ==
            IF n = 0 THEN [open |-> <<>>, out |-> <<>>]
            ELSE TimeoutStep(r, state[n - 1], events[n])
    IN  state[Len(events)]

Missing(r, open) ==
    {Failure(r, open[k].station, k, <<"missing">>, open[k].at) : k \in DOMAIN open}

\* The triggers still open after the last event fire too, in the order of a map.
TimeoutResults(r, events) ==
    LET end == TimeoutLoop(r, events)
    IN  {end.out \o rest : rest \in SetToSeqs(Missing(r, end.open))}

-----------------------------------------------------------------------------
(* threshold *)

Crosses(r, e) ==
    /\ Scoped(r, e)
    /\ r.field \in DOMAIN e.fields
    /\ \/ r.operator = "gt" /\ e.fields[r.field] > r.threshold
       \/ r.operator = "lt" /\ e.fields[r.field] < r.threshold

\* Mutation: the detail names the position in the window instead of the value.
CrossingByIndex(r, events, i) ==
    Failure(r, events[i].station, Key(events[i]), <<"crossed", i>>, events[i].at)

Crossing(r, events, i) ==
    Failure(r, events[i].station, Key(events[i]), <<"crossed", events[i].fields[r.field]>>,
            events[i].at)

ThresholdResult(r, events) ==
    LET out[n \in 0..Len(events)] ==
            IF n = 0 THEN <<>>
            ELSE IF Crosses(r, events[n]) THEN Append(out[n - 1], Crossing(r, events, n))
            ELSE out[n - 1]
    IN  out[Len(events)]

-----------------------------------------------------------------------------
(* consecutive *)

Streak(st, k) == 1 + (IF k \in DOMAIN st.open THEN st.open[k] ELSE 0)

Fired(r, st, e) == Failure(r, e.station, Key(e), <<"streak", Streak(st, Key(e))>>, e.at)

\* Mutation: the streak goes on after it fired.
ConsecutiveStepGoesOn(r, st, e) ==
    CASE Triggers(r, e) ->
             [open |-> With(st.open, Key(e), Streak(st, Key(e))),
              out  |-> IF Streak(st, Key(e)) >= r.count THEN Append(st.out, Fired(r, st, e)) ELSE st.out]
      [] Resolves(r, e) -> [open |-> Drop(st.open, Key(e)), out |-> st.out]
      [] OTHER -> st

\* A streak that reaches the count fires and starts over.
ConsecutiveStep(r, st, e) ==
    CASE Triggers(r, e) /\ Streak(st, Key(e)) >= r.count ->
             [open |-> Drop(st.open, Key(e)), out |-> Append(st.out, Fired(r, st, e))]
      [] Triggers(r, e) /\ Streak(st, Key(e)) < r.count ->
             [open |-> With(st.open, Key(e), Streak(st, Key(e))), out |-> st.out]
      [] Resolves(r, e) -> [open |-> Drop(st.open, Key(e)), out |-> st.out]
      [] OTHER -> st

ConsecutiveResult(r, events) ==
    LET state[n \in 0..Len(events)] ==
            IF n = 0 THEN [open |-> <<>>, out |-> <<>>]
            ELSE ConsecutiveStep(r, state[n - 1], events[n])
    IN  state[Len(events)].out

-----------------------------------------------------------------------------

RuleResults(r, events) ==
    CASE r.kind = "timeout"     -> TimeoutResults(r, events)
      [] r.kind = "threshold"   -> {ThresholdResult(r, events)}
      [] r.kind = "consecutive" -> {ConsecutiveResult(r, events)}

\* Evaluate: what each rule finds, in the order of the rules.
Evaluate(rules, events) ==
    LET found[n \in 0..Len(rules)] ==
            IF n = 0 THEN {<<>>}
            ELSE {out \o more : out \in found[n - 1], more \in RuleResults(rules[n], events)}
    IN  found[Len(rules)]

=============================================================================
