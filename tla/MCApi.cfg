\* Two handlers and the pipeline on one run; two stations claim it.
SPECIFICATION Spec
CONSTANTS
    h1 = h1
    h2 = h2
    runA = runA
    st1 = st1
    st2 = st2
    Handlers <- MCHandlers
    RunIds <- MCOneRun
    Stations <- MCStations
    Times <- MCTimes
    MaxEvents = 2
    MaxRows = 1
    MaxNotes = 2
    MaxReadErrors = 2
SYMMETRY SymHandlers
CONSTRAINT MCOneReader
INVARIANTS
    StoreInv
    CountedIsListed
    NotesBelongToRuns
    NotesAnnouncedOnce
CHECK_DEADLOCK FALSE
