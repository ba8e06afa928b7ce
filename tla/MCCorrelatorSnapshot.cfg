\* One run, failures out of order.
SPECIFICATION Spec
CONSTANTS
    r1 = r1
    r2 = r2
    act1 = act1
    act2 = act2
    drive = drive
    NoName = NoName
    Unknown = Unknown
    Milli = 1
    Runs <- MCOneRun
    RuleIds <- MCOneRule
    Actuators <- MCOneActuator
    Subsystem <- MCSubsystem
    Window = 2
    MaxTime = 2
    MaxFailures = 4
INVARIANT
    SnapshotsAreStable
CHECK_DEADLOCK FALSE
