\* Two runs, one note, an incident that grows twice, one failure, and up to two
\* requests of the operator and two refreshes in flight, besides the requests that
\* messages and writes cause.
SPECIFICATION MCFairSpec
CONSTANTS
    run1 = run1
    run2 = run2
    NoRun = NoRun
    RunIds <- MCRuns
    MaxNotes = 1
    MaxVersions = 2
    MaxPending = 2
    MaxRefreshes = 2
    MaxFailures = 1
    MaxToggles = 1
INVARIANTS
    PanelIsSelected
    PanelIsCurrent
PROPERTY
    IncidentsConverge
CHECK_DEADLOCK FALSE
