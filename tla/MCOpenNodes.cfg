\* The nodes of a store that exists: open, extend, crash.
CONSTANTS
    Procs = {p1, p2, p3}
    NoOne = NoOne
    Ranges <- MCRanges
    Retries = 1
    Numbered = TRUE
    Records = 1
    NumPerm = 0
    Fresh = FALSE
    Crashes = TRUE
    MaxRecords = 3
SYMMETRY Symmetry
SPECIFICATION Spec
INVARIANTS IInv NumbersUnique
