\* Two ingest goroutines, a window of two events, one write of a failure or an
\* incident that fails.
SPECIFICATION FairSpec
CONSTANTS
    tail = tail
    tcp = tcp
    Nobody = Nobody
    Anything = Anything
    NoName = NoName
    Unknown = Unknown
    Milli = 1
    Sources <- MCSources
    RuleSet <- MCRuleSet
    Events <- MCCascade
    WindowSize = 2
    MaxStoreErrors = 1
    MaxEvents = 3
    Runs <- MCRuns
    RuleIds <- MCRuleIds
    Actuators <- MCActuators
    Subsystem <- MCSubsystem
    CorrelationWindow = 1
    MaxTime = 4
    MaxFailures = 3
INVARIANTS
    FlagInv
    StoredBeforePushed
    CauseBeforeEffect
    LatestGroupingOfOne
PROPERTY
    FlaggedIsPushed
CHECK_DEADLOCK FALSE
