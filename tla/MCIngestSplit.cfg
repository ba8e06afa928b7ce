\* A drain falls between the two halves of a line.
SPECIFICATION Spec
CONSTANTS
    log = log
    Files <- MCFile
    Conns = {}
    MaxLines = 1
INVARIANT
    EveryLineEmitted
CHECK_DEADLOCK FALSE
