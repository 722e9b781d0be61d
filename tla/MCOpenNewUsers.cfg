\* The users of a new store, created by two processes that may die.
CONSTANTS
    Procs = {p1, p2}
    NoOne = NoOne
    Ranges <- MCRanges
    Retries = 1
    Numbered = FALSE
    Records = 3
    NumPerm = 2
    Fresh = TRUE
    Crashes = TRUE
    MaxRecords = 5
SYMMETRY Symmetry
SPECIFICATION Spec
INVARIANTS OpenedIsComplete
