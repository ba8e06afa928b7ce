\* Two ingest goroutines extend one incident.
SPECIFICATION Spec
CONSTANTS
    tail = tail
    tcp = tcp
    Nobody = Nobody
    Anything = Anything
    NoName = NoName
    Unknown = Unknown
    Milli = 1
    Sources <- MCSources
    RuleSet <- MCRuleSet
    Events <- MCEvents
    WindowSize = 2
    MaxStoreErrors = 0
    MaxEvents = 2
    Runs <- MCRuns
    RuleIds <- MCRuleIds
    Actuators <- MCActuators
    Subsystem <- MCSubsystem
    CorrelationWindow = 1
    MaxTime = 3
    MaxFailures = 6
INVARIANT
    LatestGrouping
CHECK_DEADLOCK FALSE
