------------------------------ MODULE Detection ------------------------------
(***************************************************************************)
(* What the rule engine promises of the events it evaluates, beside the    *)
(* loops of Rules: a failure is defined by which events trigger and which  *)
(* resolve, without any state.                                             *)
(***************************************************************************)
EXTENDS Rules

VARIABLE events  \* the events the engine evaluates

RulesOf(kind) == {r \in Range(RuleSet) : r.kind = kind}

\* The events that rule r's detector for key k reacts to.
Relevant(r, k) ==
    {i \in DOMAIN events : Key(events[i]) = k /\ (Triggers(r, events[i]) \/ Resolves(r, events[i]))}

Latest(S) == CHOOSE i \in S : \A j \in S : j <= i

Earlier(r, i) == {j \in Relevant(r, Key(events[i])) : j < i}

\* A resolve answers the trigger right before it among the relevant events.
LateAt(r, i) ==
    /\ Resolves(r, events[i])
    /\ Earlier(r, i) # {}
    /\ Triggers(r, events[Latest(Earlier(r, i))])
    /\ events[i].at - events[Latest(Earlier(r, i))].at > r.within

Unanswered(r, k) == Relevant(r, k) # {} /\ Triggers(r, events[Latest(Relevant(r, k))])

\* The events of the unbroken row of triggers that ends at i.
UnbrokenRow(r, i) ==
    {j \in Earlier(r, i) \cup {i} :
        \A m \in Earlier(r, i) \cup {i} : m >= j => Triggers(r, events[m])}

Keys == {Key(events[i]) : i \in DOMAIN events}

\* What dates a failure: its run and actuator, and a time.
DateOf(f) == <<Key(f), f.at>>

FailureKeys(fs) == {<<f.rule, f.run, f.actuator, f.detail>> : f \in ToSet(fs)}

-----------------------------------------------------------------------------

\* The timeout detector reports exactly the resolves that came too late for the
\* trigger they answer, and each actuator whose last word is a trigger
\* (rules.go:173).
TimeoutIsPairing ==
    \A r \in RulesOf("timeout") : \A out \in TimeoutResults(r, events) :
        LET late    == {i \in DOMAIN events : LateAt(r, i)}
            missing == {k \in Keys : Unanswered(r, k)}
            Missed(f) == f.detail = <<"missing">>
        IN  /\ Len(out) = Cardinality(late) + Cardinality(missing)
            /\ {DateOf(f) : f \in {g \in ToSet(out) : ~Missed(g)}}
                 = {DateOf(events[i]) : i \in late}
            /\ {DateOf(f) : f \in {g \in ToSet(out) : Missed(g)}}
                 = {<<k, events[Latest(Relevant(r, k))].at>> : k \in missing}

\* The consecutive detector fires at every count-th trigger of an unbroken row,
\* not at every trigger past the count (rules.go:226).
ConsecutiveIsCounting ==
    \A r \in RulesOf("consecutive") :
        LET out  == ConsecutiveResult(r, events)
            hits == {i \in DOMAIN events :
                         Triggers(r, events[i]) /\ Cardinality(UnbrokenRow(r, i)) % r.count = 0}
        IN  /\ Len(out) = Cardinality(hits)
            /\ {DateOf(f) : f \in ToSet(out)} = {DateOf(events[i]) : i \in hits}

\* The pipeline evaluates a sliding window: forgetting the oldest event may hide
\* a failure but never makes up one that the longer window did not show
\* (pipeline.go:56).
EvictionInventsNothing ==
    events # <<>> =>
        \A short \in Evaluate(RuleSet, Tail(events)), long \in Evaluate(RuleSet, events) :
            FailureKeys(short) \subseteq FailureKeys(long)

=============================================================================
