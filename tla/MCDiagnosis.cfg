\* Two runs, two rules, timestamps in any order, arrays of 1, 2 and 4 members, two
\* goroutines that observe and save, a write that fails and a restart in each place;
\* beside that sequences of up to four events of an alphabet of 14, pairs of runs
\* with up to four rows, histories of up to three events of two runs.
SPECIFICATION MCSpec
CONSTANTS
    r1 = r1
    r2 = r2
    act1 = act1
    drive = drive
    p1 = p1
    p2 = p2
    Sources <- MCSources
    NoSource = NoSource
    MaxStoreErrors = 1
    Runs <- MCRuns
    RuleIds <- MCRules
    Actuators <- MCOneActuator
    Subsystem <- MCSubsystem
    NoName = "none"
    Unknown = "unknown"
    Window = 1
    MaxTime = 2
    MaxFailures = 4
    MaxLives = 2
    Anything = Anything
    RuleSet <- MCRuleSet
    Alphabet <- MCAlphabet
    FailureRows <- MCFailureRows
    EventRows <- MCEventRows
    Seen <- MCSeen
    Queries <- MCQueries
    Milli = 2
    MaxEvents = 4
    MaxRows = 4
    MaxSeen = 3
SYMMETRY Symmetric
INVARIANTS
    CorrelatorInv
    Partition
    CascadeIsOneIncident
    InOrderIsStable
    RowsAreExplained
    TimeoutIsPairing
    ConsecutiveIsCounting
    EvictionInventsNothing
    ComparisonMirrors
    DeltasAccountForFailures
    RecentFirst
CHECK_DEADLOCK FALSE
